---- MODULE Spec2Model ----
(***************************************************************************)
(* Model of the Rubic bridge-aggregator tools of web3-mcp                  *)
(* (registerRubicTools): wallet address resolution, the quoteBest,         *)
(* quoteAll and swap requests, the chains and status queries, and the      *)
(* handling of their responses; and of withRetry of the TON tools.         *)
(*                                                                         *)
(* Spec follows one invocation at a time, SpecPoll repeated status         *)
(* queries, SpecConc two invocations at once, SpecDispatch and SpecAddress *)
(* the swap dispatch and the address fields over wider arguments, SpecScan *)
(* findToAddress on its own, SpecRetry withRetry.                          *)
(*                                                                         *)
(* JavaScript strings are sequences of one-character strings, so that      *)
(* toUpperCase, includes, startsWith and length are computed.  JSON values *)
(* and JavaScript values are tagged records.  A thrown Error is a record   *)
(* [threw |-> TRUE, m |-> message]; a template string is a record          *)
(* [tpl |-> template, args |-> interpolated values].                       *)
(***************************************************************************)
EXTENDS Integers, Sequences, FiniteSets, TLC

\* env: the configuration of the process (process.env)
\* pc, call, net, result, nRequests: the invocation that is running: its
\*   position, its arguments, its HTTP exchange, its return value and the
\*   number of requests it has sent
\* other: a second invocation, suspended at an await while this one runs
\* polls: history of the status queries, per source transaction hash: what the
\*   aggregator answered last and what the tool returned for it
VARIABLES env, pc, call, net, result, nRequests, other, polls

vars == <<env, pc, call, net, result, nRequests, other, polls>>

(***************************************************************************)
(* Bounds of the model.                                                    *)
(***************************************************************************)
\* longest array of routes the quoteAll endpoint answers with
MaxRoutes == 2

(***************************************************************************)
(* JavaScript / JSON values.                                               *)
(***************************************************************************)
JUndef == [t |-> "undefined"]

JNull == [t |-> "null"]

JStr(s) == [t |-> "string", s |-> s]

\* a number is the rational num/den
JNum(num, den) == [t |-> "number", num |-> num, den |-> den]

JBool(b) == [t |-> "boolean", b |-> b]

JArr(a) == [t |-> "array", a |-> a]

\* a response body that is not JSON text
NotJson == [t |-> "notjson"]

\* JavaScript truthiness: undefined, null, "" and 0 are falsy
Truthy(v) ==
  CASE v.t = "undefined" -> FALSE
    [] v.t = "null" -> FALSE
    [] v.t = "string" -> v.s # <<>>
    [] v.t = "number" -> v.num # 0
    [] v.t = "boolean" -> v.b
    [] OTHER -> TRUE

\* property access v.k throws a TypeError exactly when v is undefined or null
Nullish(v) == v.t \in {"undefined", "null"}

\* v.k (or v?.k) for a v that is not nullish: undefined unless v is an object holding k
Get(v, k) == IF v.t = "object" /\ k \in DOMAIN v.o THEN v.o[k] ELSE JUndef

\* a || b
Or(a, b) == IF Truthy(a) THEN a ELSE b

NumEq(a, b) == a.num * b.den = b.num * a.den

\* the percentage passed on as it is
DivBy100_none(x) == x

\* Number(x) / 100
DivBy100(x) == JNum(x.num, x.den * 100)

\* an object from a sequence of <<key, value>> pairs: keys in insertion order
\* (the order for..in and JSON.stringify follow), a key of undefined value left out
MkObj(pairs) ==
  LET ps == SelectSeq(pairs, LAMBDA p : p[2] # JUndef)
  IN [t |-> "object",
      keys |-> [i \in 1..Len(ps) |-> ps[i][1]],
      o |-> [k \in {ps[i][1] : i \in 1..Len(ps)} |-> ps[CHOOSE i \in 1..Len(ps) : ps[i][1] = k][2]]]

\* the object {}
EmptyObj == MkObj(<<>>)

\* Object.keys(v).length
ObjectKeysLength(v) ==
  CASE v.t = "object" -> Len(v.keys)
    [] v.t = "array" -> Len(v.a)
    [] v.t = "string" -> Len(v.s)
    [] OTHER -> 0

Ok(v) == [threw |-> FALSE, v |-> v]

Throw(m) == [threw |-> TRUE, m |-> m]

Msg(tpl, args) == [tpl |-> tpl, args |-> args]

(***************************************************************************)
(* Strings.                                                                *)
(***************************************************************************)
LowerAlpha == <<"a","b","c","d","e","f","g","h","i","j","k","l","m","n","o","p","q","r","s","t","u","v","w","x","y","z">>

UpperAlpha == <<"A","B","C","D","E","F","G","H","I","J","K","L","M","N","O","P","Q","R","S","T","U","V","W","X","Y","Z">>

HexDigits == {"0","1","2","3","4","5","6","7","8","9","a","b","c","d","e","f","A","B","C","D","E","F"}

UpperChar(c) ==
  IF \E i \in 1..26 : LowerAlpha[i] = c
  THEN UpperAlpha[CHOOSE i \in 1..26 : LowerAlpha[i] = c]
  ELSE c

\* s.toUpperCase()
toUpperCase(s) == [i \in 1..Len(s) |-> UpperChar(s[i])]

\* s.includes(sub)
includes(s, sub) == \E i \in 0..(Len(s) - Len(sub)) : SubSeq(s, i + 1, i + Len(sub)) = sub

\* s.startsWith(p)
startsWith(s, p) == Len(s) >= Len(p) /\ SubSeq(s, 1, Len(p)) = p

\* s.substring(0, n)
substring0(s, n) == SubSeq(s, 1, IF Len(s) < n THEN Len(s) ELSE n)

Rep(c, n) == [i \in 1..n |-> c]

S_0x == <<"0","x">>

(***************************************************************************)
(* Program constants.                                                      *)
(***************************************************************************)
\* 'rubic.exchange'
RUBIC_REFERRER == <<"r","u","b","i","c",".","e","x","c","h","a","n","g","e">>

\* the endpoints below RUBIC_API_BASE
URL_quoteBest == "/routes/quoteBest"

URL_quoteAll == "/routes/quoteAll"

URL_swap == "/routes/swap"

URL_chains == "/info/chains"

URL_status == "/info/status"

\* '0xYourWalletAddressHere'
PH_YourWalletAddressHere == <<"0","x","Y","o","u","r","W","a","l","l","e","t","A","d","d","r","e","s","s","H","e","r","e">>

\* '0xYourAddressHere'
PH_YourAddressHere == <<"0","x","Y","o","u","r","A","d","d","r","e","s","s","H","e","r","e">>

\* '0x0000000000000000000000000000000000000001'
PH_One == S_0x \o Rep("0", 39) \o <<"1">>

Placeholders == {PH_YourWalletAddressHere, PH_YourAddressHere, PH_One}

S_STARGATE == <<"S","T","A","R","G","A","T","E">>

S_SQUIDROUTER == <<"S","Q","U","I","D","R","O","U","T","E","R">>

S_LIFI == <<"L","I","F","I">>

S_SYMBIOSIS == <<"S","Y","M","B","I","O","S","I","S">>

S_ACROSS == <<"A","C","R","O","S","S">>

S_BRIDGED == <<"B","R","I","D","G","E","D">>

S_SOLANA == <<"S","O","L","A","N","A">>

S_SOL == <<"S","O","L">>

\* default of the slippageTolerance parameter (percent)
DefaultSlippage == JNum(1, 1)

\* default of the timeout parameter (seconds)
DefaultTimeout == JNum(30, 1)

(***************************************************************************)
(* Address resolution.                                                     *)
(***************************************************************************)
\* new Wallet(privateKey).address of ethers: defined for "0x" followed by 64
\* hexadecimal digits, a constructor error otherwise.  The address stands
\* for the key's public address; it is a function of the key alone.
Wallet(privateKey) ==
  IF /\ Len(privateKey) = 66
     /\ startsWith(privateKey, S_0x)
     /\ \A i \in 3..66 : privateKey[i] \in HexDigits
  THEN Ok(JStr(S_0x \o [i \in 1..40 |-> UpperChar(privateKey[i + 2])]))
  ELSE Throw(Msg("invalid private key", <<>>))

\* getWalletAddress deriving from the private key before it looks at the public address
getWalletAddress_keyFirst ==
  IF Truthy(env.ETH_PRIVATE_KEY)
     /\ ~Wallet(IF startsWith(env.ETH_PRIVATE_KEY.s, S_0x)
                THEN env.ETH_PRIVATE_KEY.s
                ELSE S_0x \o env.ETH_PRIVATE_KEY.s).threw
  THEN Wallet(IF startsWith(env.ETH_PRIVATE_KEY.s, S_0x)
              THEN env.ETH_PRIVATE_KEY.s
              ELSE S_0x \o env.ETH_PRIVATE_KEY.s)
  ELSE IF Truthy(env.ETH_PUBLIC_ADDRESS)
  THEN Ok(env.ETH_PUBLIC_ADDRESS)
  ELSE Throw(Msg("Neither ETH_PUBLIC_ADDRESS nor ETH_PRIVATE_KEY found in environment variables", <<>>))

getWalletAddress ==
  IF Truthy(env.ETH_PUBLIC_ADDRESS)
  THEN Ok(env.ETH_PUBLIC_ADDRESS)
  ELSE IF ~Truthy(env.ETH_PRIVATE_KEY)
  THEN Throw(Msg("Neither ETH_PUBLIC_ADDRESS nor ETH_PRIVATE_KEY found in environment variables", <<>>))
  ELSE LET privateKey == IF startsWith(env.ETH_PRIVATE_KEY.s, S_0x)
                         THEN env.ETH_PRIVATE_KEY.s
                         ELSE S_0x \o env.ETH_PRIVATE_KEY.s
           wallet == Wallet(privateKey)
       IN IF wallet.threw
          THEN Throw(Msg("Failed to derive address from private key: ${error}", <<wallet.m>>))
          ELSE Ok(wallet.v)

\* sanitizeAddress without the placeholder test
sanitizeAddress_keepPlaceholder(address) ==
  IF ~Truthy(address) THEN JUndef ELSE address

sanitizeAddress(address) ==
  IF ~Truthy(address) THEN JUndef
  ELSE IF address.s \in Placeholders
  THEN (IF getWalletAddress.threw THEN JUndef ELSE getWalletAddress.v)
  ELSE address

\* the wallet address of the quote tools: undefined when none resolves
resolveQuoteWallet(walletAddress) ==
  LET sanitizedWalletAddress == sanitizeAddress(walletAddress)
  IN IF ~Truthy(sanitizedWalletAddress)
     THEN (IF getWalletAddress.threw THEN JUndef ELSE getWalletAddress.v)
     ELSE sanitizedWalletAddress

\* resolveFromAddress going on without an address, as the quote tools do
resolveFromAddress_continue(fromAddress) ==
  Ok(resolveQuoteWallet(fromAddress))

\* the fromAddress of the swap tool: an error when none resolves
resolveFromAddress(fromAddress) ==
  LET sanitizedAddress == sanitizeAddress(fromAddress)
  IN IF ~Truthy(sanitizedAddress)
     THEN (IF getWalletAddress.threw
           THEN Throw(Msg("No valid fromAddress provided and failed to get from private key: ${error}",
                          <<getWalletAddress.m>>))
           ELSE Ok(getWalletAddress.v))
     ELSE Ok(sanitizedAddress)

(***************************************************************************)
(* Inputs of the tools and configurations of the process.                  *)
(***************************************************************************)
\* a configured public address
PubAddr == S_0x \o Rep("a", 40)

\* an address a caller passes explicitly
ExplicitAddr == S_0x \o Rep("b", 40)

\* a receiver a caller passes
ReceiverAddr == S_0x \o Rep("c", 40)

\* a well-formed private key, written with and without the 0x prefix
KeyHex == Rep("1", 40) \o Rep("f", 24)

\* the value of ETH_PRIVATE_KEY in the sample .env
KeyBad == <<"y","o","u","r","-","e","t","h","-","p","r","i","v","a","t","e","-","k","e","y">>

Envs ==
  [ETH_PUBLIC_ADDRESS : {JUndef, JStr(PubAddr)},
   ETH_PRIVATE_KEY : {JUndef, JStr(S_0x \o KeyHex), JStr(KeyHex), JStr(KeyBad)}]

\* the optional address argument of a tool
AddressArgs == {JUndef, JStr(<<>>), JStr(ExplicitAddr)} \cup {JStr(p) : p \in Placeholders}

ReceiverArgs == {JUndef, JStr(ReceiverAddr)}

\* slippageTolerance: z.number().min(0.01).max(50).optional()
SlippageArgs == {JUndef, JNum(1, 100), JNum(5, 2), JNum(50, 1)}

\* 'rango-7f3a'
Q_rango == <<"r","a","n","g","o","-","7","f","3","a">>

\* 'LiFi_91c'
Q_lifi == <<"L","i","F","i","_","9","1","c">>

\* 'Stargate-v2'
Q_stargate == <<"S","t","a","r","g","a","t","e","-","v","2">>

\* ' a1B '
Q_spaces == <<" ","a","1","B"," ">>

QuoteIds == {Q_rango, Q_lifi, Q_stargate, Q_spaces}

C_ETH == <<"E","T","H">>

C_BSC == <<"B","S","C">>

C_solana == <<"s","o","l","a","n","a">>

C_Sol == <<"S","o","l">>

SrcChains == {C_ETH, C_solana, C_Sol}

\* the all-zero address of a native token
NativeToken == S_0x \o Rep("0", 40)

Amount == <<"1","0","0","0">>

\* source transaction hashes passed to getRubicBridgeStatus
Hash1 == S_0x \o Rep("1", 64)

Hash2 == S_0x \o Rep("2", 64)

Hashes == {Hash1, Hash2}

\* a parameter with a default value
Default(v, d) == IF v.t = "undefined" THEN d ELSE v

(***************************************************************************)
(* Request bodies.                                                         *)
(***************************************************************************)
\* the quote requestBody with the application's own name as referrer
quoteRequestBody_ownReferrer(srcTokenBlockchain, walletAddress, slippageTolerance) ==
  LET userWalletAddress == resolveQuoteWallet(walletAddress)
  IN MkObj(<<<<"srcTokenBlockchain", JStr(srcTokenBlockchain)>>,
            <<"srcTokenAddress", JStr(NativeToken)>>,
            <<"srcTokenAmount", JStr(Amount)>>,
            <<"dstTokenBlockchain", JStr(C_BSC)>>,
            <<"dstTokenAddress", JStr(NativeToken)>>,
            <<"referrer", JStr(<<"w","e","b","3","-","m","c","p">>)>>,
            <<"timeout", DefaultTimeout>>,
            <<"includeTestnets", JBool(FALSE)>>,
            <<"showFailedRoutes", JBool(FALSE)>>,
            <<"slippageTolerance", DivBy100(Default(slippageTolerance, DefaultSlippage))>>,
            <<"walletAddress", IF Truthy(userWalletAddress) THEN userWalletAddress ELSE JUndef>>>>)

\* requestBody of getRubicBridgeQuote and getRubicBridgeQuotes
quoteRequestBody(srcTokenBlockchain, walletAddress, slippageTolerance) ==
  LET userWalletAddress == resolveQuoteWallet(walletAddress)
  IN MkObj(<<<<"srcTokenBlockchain", JStr(srcTokenBlockchain)>>,
            <<"srcTokenAddress", JStr(NativeToken)>>,
            <<"srcTokenAmount", JStr(Amount)>>,
            <<"dstTokenBlockchain", JStr(C_BSC)>>,
            <<"dstTokenAddress", JStr(NativeToken)>>,
            <<"referrer", JStr(RUBIC_REFERRER)>>,
            <<"timeout", DefaultTimeout>>,
            <<"includeTestnets", JBool(FALSE)>>,
            <<"showFailedRoutes", JBool(FALSE)>>,
            <<"slippageTolerance", DivBy100(Default(slippageTolerance, DefaultSlippage))>>,
            <<"walletAddress", IF Truthy(userWalletAddress) THEN userWalletAddress ELSE JUndef>>>>)

\* the swap requestBody with the quote id normalised to upper case
swapRequestBody_upperId(quoteId, userFromAddress, srcTokenBlockchain, receiver, slippageTolerance) ==
  MkObj(<<<<"id", JStr(toUpperCase(quoteId))>>,
         <<"fromAddress", userFromAddress>>,
         <<"walletAddress", userFromAddress>>,
         <<"srcTokenBlockchain", JStr(srcTokenBlockchain)>>,
         <<"srcTokenAddress", JStr(NativeToken)>>,
         <<"srcTokenAmount", JStr(Amount)>>,
         <<"dstTokenBlockchain", JStr(C_BSC)>>,
         <<"dstTokenAddress", JStr(NativeToken)>>,
         <<"referrer", JStr(RUBIC_REFERRER)>>,
         <<"slippageTolerance", DivBy100(Default(slippageTolerance, DefaultSlippage))>>,
         <<"receiver", IF Truthy(receiver) THEN receiver ELSE JUndef>>>>)

\* requestBody of prepareRubicBridgeSwap
swapRequestBody(quoteId, userFromAddress, srcTokenBlockchain, receiver, slippageTolerance) ==
  MkObj(<<<<"id", JStr(quoteId)>>,
         <<"fromAddress", userFromAddress>>,
         <<"walletAddress", userFromAddress>>,
         <<"srcTokenBlockchain", JStr(srcTokenBlockchain)>>,
         <<"srcTokenAddress", JStr(NativeToken)>>,
         <<"srcTokenAmount", JStr(Amount)>>,
         <<"dstTokenBlockchain", JStr(C_BSC)>>,
         <<"dstTokenAddress", JStr(NativeToken)>>,
         <<"referrer", JStr(RUBIC_REFERRER)>>,
         <<"slippageTolerance", DivBy100(Default(slippageTolerance, DefaultSlippage))>>,
         <<"receiver", IF Truthy(receiver) THEN receiver ELSE JUndef>>>>)

(***************************************************************************)
(* Results of a tool.                                                      *)
(***************************************************************************)
NoResult == [via |-> "none"]

\* the catch block of a tool: only a text, no data
Failed(prefix, m) == [via |-> "catch", text |-> <<Msg(prefix, <<m>>)>>, data |-> JUndef]

Returned(via, text, data) == [via |-> via, text |-> text, data |-> data]

NoMessage == [dir |-> "none"]

NoCall == [op |-> "none"]

\* an invocation slot with nothing running in it
NoInvocation == [pc |-> "idle", call |-> NoCall, net |-> NoMessage, result |-> NoResult, nRequests |-> 0]

\* no status query has been answered yet
NoPoll == [seen |-> FALSE]

(***************************************************************************)
(* The state after construction: a configuration, no invocation running.   *)
(***************************************************************************)
Init ==
  /\ env \in Envs
  /\ pc = "idle"
  /\ call = NoCall
  /\ net = NoMessage
  /\ result = NoResult
  /\ nRequests = 0
  /\ other = NoInvocation
  /\ polls = [h \in Hashes |-> NoPoll]

\* fetch(url, {method: 'POST', body}): the request goes on the wire
Fetch(url, body) ==
  /\ net' = [dir |-> "request", url |-> url, method |-> "POST", body |-> body]
  /\ nRequests' = nRequests + 1
  /\ pc' = "awaiting"
  /\ result' = NoResult
  /\ UNCHANGED <<other, polls>>

\* fetch(url, {method: 'GET'}): the query goes on the wire
FetchGet(url, query) ==
  /\ net' = [dir |-> "request", url |-> url, method |-> "GET", query |-> query]
  /\ nRequests' = nRequests + 1
  /\ pc' = "awaiting"
  /\ result' = NoResult
  /\ UNCHANGED <<other, polls>>

\* the tool returns without a request
ReturnNow(r) ==
  /\ result' = r
  /\ pc' = "done"
  /\ net' = NoMessage
  /\ UNCHANGED <<nRequests, other, polls>>

(***************************************************************************)
(* prepareRubicBridgeSwap: handling of the /routes/swap response.          *)
(***************************************************************************)
\* the TypeError of reading a property of undefined or null, or of calling a
\* method a value does not have, at the named expression
TypeError(at) == [tpl |-> "TypeError", args |-> <<>>, at |-> at]

\* the Error thrown for a non-2xx answer, with its status code and its body
rubicApiError_statusOnly(status, errorText) ==
  Msg("Rubic API error (${response.status})", <<JNum(status, 1)>>)

rubicApiError(status, errorText) ==
  Msg("Rubic API error (${response.status}): ${errorText}", <<JNum(status, 1), errorText>>)

\* response.ok
ResponseOk(response) == response.status >= 200 /\ response.status <= 299

\* v?.k
GetOpt(v, k) == IF Nullish(v) THEN JUndef ELSE Get(v, k)

\* does the quote id name a provider with a special response format
\* isSpecialProvider comparing the quote id as it is written, and without BRIDGED
isSpecialProvider_asWritten(quoteId) ==
  \/ includes(quoteId, S_SQUIDROUTER)
  \/ includes(quoteId, S_LIFI)
  \/ includes(quoteId, S_SYMBIOSIS)
  \/ includes(quoteId, S_ACROSS)

isSpecialProvider(quoteId) ==
  \/ includes(toUpperCase(quoteId), S_SQUIDROUTER)
  \/ includes(toUpperCase(quoteId), S_LIFI)
  \/ includes(toUpperCase(quoteId), S_SYMBIOSIS)
  \/ includes(toUpperCase(quoteId), S_ACROSS)
  \/ includes(toUpperCase(quoteId), S_BRIDGED)

isSolanaSource(srcTokenBlockchain) ==
  \/ toUpperCase(srcTokenBlockchain) = S_SOLANA
  \/ toUpperCase(srcTokenBlockchain) = S_SOL

\* the keys for..in visits, in order
KeysOf(obj) ==
  IF obj.t = "object" THEN obj.keys ELSE [i \in 1..Len(obj.a) |-> <<"index", i>>]

ValueAt(obj, i) == IF obj.t = "object" THEN obj.o[obj.keys[i]] ELSE obj.a[i]

AddressKeys == {"to", "targetAddress", "contractAddress"}

RECURSIVE findToAddress(_, _)
RECURSIVE findToAddressFrom(_, _, _)

\* the body of the for..in loop of findToAddress from the i-th key on
findToAddressFrom(obj, depth, i) ==
  IF i > Len(KeysOf(obj)) THEN <<>>
  ELSE LET key == KeysOf(obj)[i]
           v == ValueAt(obj, i)
       IN IF v.t = "string" /\ startsWith(v.s, S_0x) /\ Len(v.s) = 42
          THEN (IF obj.t = "object" /\ key \in AddressKeys
                THEN v.s
                ELSE findToAddressFrom(obj, depth, i + 1))
          ELSE IF v.t \in {"object", "array", "null"}
          THEN (LET found == findToAddress(v, depth + 1)
                IN IF found # <<>> THEN found ELSE findToAddressFrom(obj, depth, i + 1))
          ELSE findToAddressFrom(obj, depth, i + 1)

\* findToAddress answering the zero address when it finds none
findToAddress_zero(obj, depth) ==
  IF depth > 3 \/ obj.t \notin {"object", "array"} \/ findToAddressFrom(obj, depth, 1) = <<>>
  THEN S_0x \o Rep("0", 40)
  ELSE findToAddressFrom(obj, depth, 1)

\* the recursive scan for a transaction target address; '' when none
findToAddress(obj, depth) ==
  IF depth > 3 THEN <<>>
  ELSE IF obj.t \notin {"object", "array"} THEN <<>>
  ELSE findToAddressFrom(obj, depth, 1)

\* txData after the three candidate containers have been probed
probeTxData(data) ==
  LET transaction == Get(data, "transaction")
      tx == Get(data, "tx")
      transactionRequest == Get(data, "transactionRequest")
      empty == JStr(<<>>)
      zero == JStr(<<"0">>)
      txData0 == [to |-> empty, data |-> empty, value |-> zero]
      txData1 == IF Truthy(transaction)
                 THEN [to |-> Or(Get(transaction, "targetAddress"),
                              Or(Get(transaction, "to"),
                              Or(GetOpt(Get(transaction, "routeTransaction"), "targetAddress"), empty))),
                       data |-> Or(Get(transaction, "data"), empty),
                       value |-> Or(Get(transaction, "value"), zero)]
                 ELSE txData0
      txData2 == IF ~Truthy(txData1.to) /\ Truthy(tx)
                 THEN [to |-> Or(Get(tx, "to"), Or(Get(tx, "targetAddress"), empty)),
                       data |-> Or(Get(tx, "data"), Or(GetOpt(transaction, "data"), empty)),
                       value |-> Or(Get(tx, "value"), Or(GetOpt(transaction, "value"), zero))]
                 ELSE txData1
      txData3 == IF ~Truthy(txData2.to) /\ Truthy(transactionRequest)
                 THEN [to |-> Or(Get(transactionRequest, "to"),
                              Or(Get(transactionRequest, "targetAddress"), empty)),
                       data |-> Or(Get(transactionRequest, "data"), empty),
                       value |-> Or(Get(transactionRequest, "value"), zero)]
                 ELSE txData2
  IN txData3

\* the handler of SQUIDROUTER, LIFI, SYMBIOSIS, ACROSS and BRIDGED quotes
specialProviderHandler(quoteId, srcTokenBlockchain, data) ==
  IF /\ ~Truthy(Get(data, "transaction"))
     /\ ~Truthy(Get(data, "tx"))
     /\ ~Truthy(Get(data, "transactionRequest"))
  THEN Throw(Msg("No transaction data found in response for ${quoteId}", <<JStr(quoteId)>>))
  ELSE LET probed == probeTxData(data)
           txData == IF ~Truthy(probed.to)
                     THEN [probed EXCEPT !.to = JStr(findToAddress(data, 0))]
                     ELSE probed
       IN IF ~Truthy(txData.to)
          THEN Throw(Msg("Could not find transaction target address in ${quoteId} response", <<JStr(quoteId)>>))
          ELSE IF ~Truthy(txData.data)
          THEN Throw(Msg("Could not find transaction data in ${quoteId} response", <<JStr(quoteId)>>))
          ELSE IF txData.data.t # "string"
          THEN Throw(TypeError("txData.data.substring"))
          ELSE Ok(Returned("special",
                  <<Msg("Transaction Details for ${quoteId} Bridge Swap:", <<JStr(quoteId)>>),
                    Msg("Chain: ${srcTokenBlockchain}", <<JStr(srcTokenBlockchain)>>),
                    Msg("Provider: ${quoteId}", <<JStr(quoteId)>>),
                    Msg("To Address: ${txData.to}", <<txData.to>>),
                    Msg("Data: ${txData.data.substring(0, 40)}...", <<JStr(substring0(txData.data.s, 40))>>),
                    Msg("Value: ${txData.value}", <<txData.value>>),
                    Msg("This is a ${quoteId} transaction. Please ensure you have:", <<JStr(quoteId)>>),
                    Msg("1. Selected the correct network (${srcTokenBlockchain})", <<JStr(srcTokenBlockchain)>>),
                    Msg("2. Have sufficient gas for the transaction", <<>>)>>,
                  MkObj(<<<<"transaction", MkObj(<<<<"to", txData.to>>, <<"data", txData.data>>,
                                                  <<"value", txData.value>>>>)>>,
                          <<"quoteId", JStr(quoteId)>>,
                          <<"blockchain", JStr(srcTokenBlockchain)>>,
                          <<"sourceToken", MkObj(<<<<"address", JStr(NativeToken)>>,
                                                  <<"blockchain", JStr(srcTokenBlockchain)>>>>)>>,
                          <<"destinationToken", MkObj(<<<<"address", JStr(NativeToken)>>,
                                                       <<"blockchain", JStr(C_BSC)>>>>)>>,
                          <<"provider", JStr(quoteId)>>>>)))

\* the handler of a SOLANA / SOL source chain
solanaHandler(swapData) ==
  LET transaction == Get(swapData, "transaction")
  IN IF Nullish(transaction)
     THEN Throw(TypeError("swapData.transaction.data"))
     ELSE IF ~Truthy(Get(transaction, "data"))
     THEN Throw(Msg("Missing transaction data in Solana response: ${JSON.stringify(swapData)}", <<swapData>>))
     ELSE IF Get(transaction, "data").t # "string"
     THEN Throw(TypeError("swapData.transaction.data.substring"))
     ELSE Ok(Returned("solana",
             <<Msg("Transaction Details for Solana Bridge Swap:", <<>>),
               Msg("Provider: ${swapData.provider || 'Unknown'}",
                   <<Or(Get(swapData, "provider"), JStr(<<"U","n","k","n","o","w","n">>))>>),
               Msg("Type: ${swapData.type || 'cross-chain'}",
                   <<Or(Get(swapData, "type"), JStr(<<"c","r","o","s","s","-","c","h","a","i","n">>))>>),
               Msg("Transaction Data Format: Base64", <<>>),
               Msg("Transaction Data: ${swapData.transaction.data.substring(0, 40)}...",
                   <<JStr(substring0(Get(transaction, "data").s, 40))>>),
               Msg("To execute this Solana transaction:", <<>>)>>,
             MkObj(<<<<"transactionData", Get(transaction, "data")>>,
                     <<"blockchain", JStr(S_SOLANA)>>,
                     <<"provider", Get(swapData, "provider")>>,
                     <<"quoteId", Get(swapData, "id")>>>>)))

\* the standard handler of the other (EVM) providers
defaultHandler(srcTokenBlockchain, swapData) ==
  LET transaction == Get(swapData, "transaction")
  IN IF Nullish(transaction)
     THEN Throw(TypeError("swapData.transaction.to"))
     ELSE IF ~Truthy(Get(transaction, "to"))
     THEN Throw(Msg("Missing 'to' address in transaction data: ${JSON.stringify(swapData.transaction)}",
                    <<transaction>>))
     ELSE IF ~Truthy(Get(transaction, "data"))
     THEN Throw(Msg("Missing 'data' in transaction data: ${JSON.stringify(swapData.transaction)}",
                    <<transaction>>))
     ELSE IF Get(transaction, "data").t # "string"
     THEN Throw(TypeError("swapData.transaction.data.substring"))
     ELSE Ok(Returned("default",
             <<Msg("Transaction Details for Bridge Swap:", <<>>),
               Msg("Chain: ${srcTokenBlockchain}", <<JStr(srcTokenBlockchain)>>),
               Msg("Type: ${swapData.type || 'cross-chain'}",
                   <<Or(Get(swapData, "type"), JStr(<<"c","r","o","s","s","-","c","h","a","i","n">>))>>),
               Msg("Provider: ${swapData.provider || 'Unknown'}",
                   <<Or(Get(swapData, "provider"), JStr(<<"U","n","k","n","o","w","n">>))>>),
               Msg("To Address: ${swapData.transaction.to}", <<Get(transaction, "to")>>),
               Msg("Data: ${swapData.transaction.data.substring(0, 40)}...",
                   <<JStr(substring0(Get(transaction, "data").s, 40))>>),
               Msg("Value: ${swapData.transaction.value || '0'}",
                   <<Or(Get(transaction, "value"), JStr(<<"0">>))>>)>>
             \o (IF Truthy(Get(transaction, "approvalAddress"))
                 THEN <<Msg("WARNING: This token requires approval first!", <<>>),
                        Msg("Approval Address: ${swapData.transaction.approvalAddress}",
                            <<Get(transaction, "approvalAddress")>>)>>
                 ELSE <<>>),
             MkObj(<<<<"transaction", transaction>>,
                     <<"quoteId", Get(swapData, "id")>>,
                     <<"blockchain", JStr(srcTokenBlockchain)>>,
                     <<"sourceToken", GetOpt(Get(swapData, "tokens"), "from")>>,
                     <<"destinationToken", GetOpt(Get(swapData, "tokens"), "to")>>,
                     <<"estimate", Get(swapData, "estimate")>>,
                     <<"provider", Get(swapData, "provider")>>>>)))

\* the error test passing a body that also holds a transaction
bodyReportsError_unlessTransaction(data) ==
  /\ ~Truthy(Get(data, "transaction"))
  /\ \/ Truthy(Get(data, "error"))
     \/ Truthy(Get(data, "statusCode"))
     \/ (Truthy(Get(data, "message")) /\ Get(data, "message").t = "string")

\* data.error || data.statusCode || (data.message && typeof data.message === 'string')
bodyReportsError(data) ==
  \/ Truthy(Get(data, "error"))
  \/ Truthy(Get(data, "statusCode"))
  \/ (Truthy(Get(data, "message")) /\ Get(data, "message").t = "string")

\* prepareRubicBridgeSwap from the end of the fetch to its return or throw
handleSwapResponse(quoteId, srcTokenBlockchain, response) ==
  IF response.dir = "failure" THEN Throw(response.m)
  ELSE IF ~ResponseOk(response)
  THEN Throw(rubicApiError(response.status, response.raw))
  ELSE IF response.raw = NotJson
  THEN Throw(Msg("Failed to parse API response as JSON: ${responseText}", <<response.raw>>))
  ELSE LET data == response.raw
       IN IF Nullish(data) THEN Throw(TypeError("data.error"))
          ELSE IF bodyReportsError(data)
          THEN Throw(Msg("API returned an error: ${errorMessage}",
                         <<Or(Get(data, "message"),
                              Or(Get(data, "error"),
                                 JStr(<<"U","n","k","n","o","w","n"," ","A","P","I"," ","e","r","r","o","r">>)))>>))
          ELSE IF ObjectKeysLength(data) = 0
          THEN Throw(Msg("No data returned for ${quoteId}. This route might not be available.",
                         <<JStr(quoteId)>>))
          ELSE IF isSpecialProvider(quoteId)
          THEN specialProviderHandler(quoteId, srcTokenBlockchain, data)
          ELSE IF isSolanaSource(srcTokenBlockchain)
          THEN solanaHandler(data)
          ELSE defaultHandler(srcTokenBlockchain, data)

(***************************************************************************)
(* getRubicBridgeQuotes and getRubicBridgeQuote: handling of the response. *)
(***************************************************************************)
S_Unknown == <<"U","n","k","n","o","w","n">>

\* "USD Value" line: printed when the source price and the USD estimate are there
usdLine(route) ==
  LET from == Get(Get(route, "tokens"), "from")
      estimate == Get(route, "estimate")
  IN IF Truthy(Get(from, "price")) /\ Truthy(estimate) /\ Truthy(Get(estimate, "destinationUsdAmount"))
     THEN (IF Get(estimate, "destinationUsdAmount").t # "number"
           THEN Throw(TypeError("estimate.destinationUsdAmount.toFixed"))
           ELSE Ok(<<Msg("USD Value: ${amount * price} -> ${destinationUsdAmount}",
                         <<Get(from, "amount"), Get(from, "price"), Get(estimate, "destinationUsdAmount")>>)>>))
     ELSE Ok(<<>>)

\* "Gas Fee" line: printed when fees.gasTokenFees is there
gasLine(route) ==
  LET gasTokenFees == Get(Get(route, "fees"), "gasTokenFees")
  IN IF Truthy(Get(route, "fees")) /\ Truthy(gasTokenFees)
     THEN (IF Nullish(Get(gasTokenFees, "provider")) \/ Nullish(Get(gasTokenFees, "nativeToken"))
           THEN Throw(TypeError("fees.gasTokenFees.provider.fixedAmount"))
           ELSE IF Get(Get(gasTokenFees, "provider"), "fixedUsdAmount").t # "number"
           THEN Throw(TypeError("fees.gasTokenFees.provider.fixedUsdAmount.toFixed"))
           ELSE Ok(<<Msg("Gas Fee: ${fixedAmount} ${symbol} (${fixedUsdAmount})",
                         <<Get(Get(gasTokenFees, "provider"), "fixedAmount"),
                           Get(Get(gasTokenFees, "nativeToken"), "symbol"),
                           Get(Get(gasTokenFees, "provider"), "fixedUsdAmount")>>)>>))
     ELSE Ok(<<>>)

\* "Price Impact" line
impactLine(route) ==
  LET estimate == Get(route, "estimate")
  IN IF Truthy(estimate) /\ Truthy(Get(estimate, "priceImpact"))
     THEN <<Msg("Price Impact: ${priceImpact * 100}%", <<Get(estimate, "priceImpact")>>)>>
     ELSE <<>>

\* the lines getRubicBridgeQuotes prints for a route after its id and provider
routeDetails(route) ==
  LET tokens == Get(route, "tokens")
      from == Get(tokens, "from")
      to == Get(tokens, "to")
      estimate == Get(route, "estimate")
      hasTokens == Truthy(tokens) /\ Truthy(from) /\ Truthy(to)
  IN IF hasTokens /\ usdLine(route).threw THEN usdLine(route)
     ELSE IF gasLine(route).threw THEN gasLine(route)
     ELSE Ok((IF hasTokens
              THEN <<Msg("From: ${amount} ${symbol} (${blockchain})",
                         <<Get(from, "amount"), Get(from, "symbol"), Get(from, "blockchain")>>)>>
              ELSE <<>>)
          \o (IF hasTokens /\ Truthy(estimate) /\ Truthy(Get(estimate, "destinationTokenAmount"))
              THEN <<Msg("To: ${destinationTokenAmount} ${symbol} (${blockchain})",
                         <<Get(estimate, "destinationTokenAmount"), Get(to, "symbol"), Get(to, "blockchain")>>)>>
              ELSE <<>>)
          \o (IF hasTokens THEN usdLine(route).v ELSE <<>>)
          \o (IF Truthy(estimate) /\ Truthy(Get(estimate, "durationInMinutes"))
              THEN <<Msg("Estimated Time: ${durationInMinutes} minutes", <<Get(estimate, "durationInMinutes")>>)>>
              ELSE <<>>)
          \o gasLine(route).v
          \o impactLine(route))

providerOf(route) == Or(Get(route, "providerType"), Or(Get(route, "provider"), JStr(S_Unknown)))

RECURSIVE routesText(_, _)
\* dataArray.forEach from the index-th route on
routesText(dataArray, index) ==
  IF index > Len(dataArray) THEN Ok(<<>>)
  ELSE LET route == dataArray[index]
       IN IF Nullish(route) THEN Throw(TypeError("route.providerType"))
          ELSE IF routeDetails(route).threw THEN routeDetails(route)
          ELSE LET rest == routesText(dataArray, index + 1)
               IN IF rest.threw THEN rest
                  ELSE Ok(<<Msg("Route ${index + 1}: ${provider}", <<JNum(index, 1), providerOf(route)>>),
                            Msg("Quote ID: ${route.id}", <<Get(route, "id")>>)>>
                          \o routeDetails(route).v \o rest.v)

T_Header == Msg("Available Bridge Routes:", <<>>)

T_NoRoutes == Msg("No available routes found.", <<>>)

T_NoRoutesOrInvalid == Msg("No available routes found or invalid response format.", <<>>)

\* getRubicBridgeQuotes from the end of the fetch to its return or throw
handleQuotesResponse(response) ==
  IF response.dir = "failure" THEN Throw(response.m)
  ELSE IF ~ResponseOk(response)
  THEN Throw(rubicApiError(response.status, response.raw))
  ELSE IF response.raw = NotJson
  THEN Throw(Msg("SyntaxError: Unexpected token in JSON", <<>>))
  ELSE LET rawData == response.raw
       IN IF rawData.t # "array"
          THEN (IF Nullish(rawData) THEN Throw(TypeError("rawData.id"))
                ELSE IF Truthy(Get(rawData, "id"))
                THEN (IF routeDetails(rawData).threw THEN routeDetails(rawData)
                      ELSE Ok(Returned("quotes",
                              <<T_Header,
                                Msg("Quote ID: ${data.id}", <<Get(rawData, "id")>>),
                                Msg("Provider: ${provider}", <<providerOf(rawData)>>)>>
                              \o routeDetails(rawData).v
                              \o <<Msg("IMPORTANT: To execute this swap, use the quote ID above", <<>>)>>,
                              rawData)))
                ELSE Ok(Returned("quotes", <<T_Header, T_NoRoutesOrInvalid>>, rawData)))
          ELSE IF Len(rawData.a) = 0
          THEN Ok(Returned("quotes", <<T_Header, T_NoRoutes>>, rawData))
          ELSE (IF routesText(rawData.a, 1).threw THEN routesText(rawData.a, 1)
                ELSE Ok(Returned("quotes",
                        <<T_Header>> \o routesText(rawData.a, 1).v
                        \o <<Msg("IMPORTANT: To execute any of these swaps, use the specific Quote ID", <<>>)>>,
                        rawData)))

RECURSIVE routingText(_, _)
\* data.routing.forEach from the i-th step on
routingText(routing, i) ==
  IF i > Len(routing) THEN Ok(<<>>)
  ELSE LET route == routing[i]
           path == Get(route, "path")
       IN IF Nullish(route) THEN Throw(TypeError("route.provider"))
          ELSE IF path.t # "array" THEN Throw(TypeError("route.path.length"))
          ELSE IF Len(path.a) > 0 /\ (Nullish(path.a[1]) \/ Nullish(path.a[Len(path.a)]))
          THEN Throw(TypeError("fromToken.amount"))
          ELSE LET rest == routingText(routing, i + 1)
               IN IF rest.threw THEN rest
                  ELSE Ok(<<Msg("Step ${i + 1}: ${route.provider} (${route.type})",
                                <<JNum(i, 1), Get(route, "provider"), Get(route, "type")>>)>>
                          \o (IF Len(path.a) > 0
                              THEN <<Msg("${fromToken.amount} ${fromToken.symbol} -> ${toToken.amount} ${toToken.symbol}",
                                         <<Get(path.a[1], "amount"), Get(path.a[1], "symbol"),
                                           Get(path.a[Len(path.a)], "amount"), Get(path.a[Len(path.a)], "symbol")>>)>>
                              ELSE <<>>)
                          \o rest.v)

\* getRubicBridgeQuote from the end of the fetch to its return or throw
handleQuoteResponse(response) ==
  IF response.dir = "failure" THEN Throw(response.m)
  ELSE IF ~ResponseOk(response)
  THEN Throw(rubicApiError(response.status, response.raw))
  ELSE IF response.raw = NotJson
  THEN Throw(Msg("SyntaxError: Unexpected token in JSON", <<>>))
  ELSE LET data == response.raw
           tokens == Get(data, "tokens")
           estimate == Get(data, "estimate")
           fees == Get(data, "fees")
           routing == Get(data, "routing")
           warnings == Get(data, "warnings")
       IN IF Nullish(data) THEN Throw(TypeError("data.id"))
          ELSE IF Nullish(tokens) \/ Nullish(Get(tokens, "from"))
          THEN Throw(TypeError("data.tokens.from.amount"))
          ELSE IF Nullish(estimate) THEN Throw(TypeError("data.estimate.destinationTokenAmount"))
          ELSE IF Nullish(Get(tokens, "to")) THEN Throw(TypeError("data.tokens.to.symbol"))
          ELSE IF Nullish(fees) THEN Throw(TypeError("data.fees.gasTokenFees"))
          ELSE IF usdLine(data).threw THEN usdLine(data)
          ELSE IF gasLine(data).threw THEN gasLine(data)
          ELSE IF routing.t = "array" /\ routingText(routing.a, 1).threw THEN routingText(routing.a, 1)
          ELSE IF routing.t = "string" /\ Truthy(routing) THEN Throw(TypeError("data.routing.forEach"))
          ELSE Ok(Returned("quote",
                  <<Msg("Bridge Quote Results:", <<>>),
                    Msg("Quote ID: ${data.id}", <<Get(data, "id")>>),
                    Msg("From: ${amount} ${symbol} (${blockchain})",
                        <<Get(Get(tokens, "from"), "amount"), Get(Get(tokens, "from"), "symbol"),
                          Get(Get(tokens, "from"), "blockchain")>>),
                    Msg("To: ${destinationTokenAmount} ${symbol} (${blockchain})",
                        <<Get(estimate, "destinationTokenAmount"), Get(Get(tokens, "to"), "symbol"),
                          Get(Get(tokens, "to"), "blockchain")>>)>>
                  \o usdLine(data).v
                  \o <<Msg("Provider: ${provider}", <<providerOf(data)>>),
                       Msg("Type: ${data.swapType}", <<Get(data, "swapType")>>),
                       Msg("Estimated Duration: ${durationInMinutes} minutes",
                           <<Get(estimate, "durationInMinutes")>>)>>
                  \o gasLine(data).v
                  \o <<Msg("Fees:", <<>>)>>
                  \o (IF Truthy(Get(fees, "percentFees"))
                      THEN <<Msg("Percent Fee: ${percent}%", <<Get(Get(fees, "percentFees"), "percent")>>)>>
                      ELSE <<>>)
                  \o impactLine(data)
                  \o (IF warnings.t = "array" /\ Len(warnings.a) > 0
                      THEN <<Msg("Warnings: ${data.warnings.length}", <<JNum(Len(warnings.a), 1)>>)>>
                      ELSE <<>>)
                  \o (IF routing.t = "array" /\ Len(routing.a) > 0
                      THEN <<Msg("Routing Path:", <<>>)>> \o routingText(routing.a, 1).v
                      ELSE <<>>)
                  \o <<Msg("IMPORTANT: To execute this swap, use the quote ID above", <<>>)>>,
                  data))

(***************************************************************************)
(* getRubicSupportedChains: handling of the response.                      *)
(***************************************************************************)
P_chains == "Failed to get supported blockchains: ${error.message}"

RECURSIVE formatChains(_, _)
\* data.map(chain => ({...})) from the i-th chain on
formatChains(data, i) ==
  IF i > Len(data) THEN Ok(<<>>)
  ELSE LET chain == data[i]
       IN IF Nullish(chain) THEN Throw(TypeError("chain.name"))
          ELSE IF Nullish(Get(chain, "providers")) THEN Throw(TypeError("chain.providers.crossChain"))
          ELSE LET rest == formatChains(data, i + 1)
               IN IF rest.threw THEN rest
                  ELSE Ok(<<MkObj(<<<<"name", Get(chain, "name")>>,
                                    <<"id", Get(chain, "id")>>,
                                    <<"testnet", Get(chain, "testnet")>>,
                                    <<"type", Get(chain, "type")>>,
                                    <<"crossChainProviders", Get(Get(chain, "providers"), "crossChain")>>,
                                    <<"onChainProviders", Get(Get(chain, "providers"), "onChain")>>,
                                    <<"proxyAvailable", Get(chain, "proxyAvailable")>>>>)>>
                          \o rest.v)

RECURSIVE chainsText(_, _)
\* formattedChains.map(chain => `...`) from the i-th chain on
chainsText(formattedChains, i) ==
  IF i > Len(formattedChains) THEN Ok(<<>>)
  ELSE LET chain == formattedChains[i]
       IN IF Get(chain, "crossChainProviders").t # "array"
          THEN Throw(TypeError("chain.crossChainProviders.join"))
          ELSE IF Get(chain, "onChainProviders").t # "array"
          THEN Throw(TypeError("chain.onChainProviders.join"))
          ELSE LET rest == chainsText(formattedChains, i + 1)
               IN IF rest.threw THEN rest
                  ELSE Ok(<<Msg("${chain.name} (ID: ${chain.id})${chain.testnet ? ' [TESTNET]' : ''}",
                                <<Get(chain, "name"), Get(chain, "id"), JBool(Truthy(Get(chain, "testnet")))>>),
                            Msg("Type: ${chain.type}", <<Get(chain, "type")>>),
                            Msg("Cross-Chain Providers: ${chain.crossChainProviders.join(', ')}",
                                <<Get(chain, "crossChainProviders")>>),
                            Msg("On-Chain Providers: ${chain.onChainProviders.join(', ')}",
                                <<Get(chain, "onChainProviders")>>),
                            Msg("Fee Collection Available: ${chain.proxyAvailable ? 'Yes' : 'No'}",
                                <<JBool(Truthy(Get(chain, "proxyAvailable")))>>)>>
                          \o rest.v)

\* getRubicSupportedChains from the end of the fetch to its return or throw
handleChainsResponse(response) ==
  IF response.dir = "failure" THEN Throw(response.m)
  ELSE IF ~ResponseOk(response)
  THEN Throw(rubicApiError(response.status, response.raw))
  ELSE IF response.raw = NotJson
  THEN Throw(Msg("SyntaxError: Unexpected token in JSON", <<>>))
  ELSE LET data == response.raw
       IN IF data.t # "array" THEN Throw(TypeError("data.map"))
          ELSE LET formattedChains == formatChains(data.a, 1)
               IN IF formattedChains.threw THEN formattedChains
                  ELSE LET lines == chainsText(formattedChains.v, 1)
                       IN IF lines.threw THEN lines
                          ELSE Ok(Returned("chains",
                                    <<Msg("Available blockchains for cross-chain bridging:", <<>>)>> \o lines.v,
                                    JArr(formattedChains.v)))

(***************************************************************************)
(* getRubicBridgeStatus: handling of the response.                         *)
(***************************************************************************)
P_status == "Failed to get bridge transaction status: ${error.message}"

\* the status tokens of CrossChainStatusResponse
S_pending == <<"p","e","n","d","i","n","g">>

S_indexing == <<"i","n","d","e","x","i","n","g">>

S_revert == <<"r","e","v","e","r","t">>

S_failed == <<"f","a","i","l","e","d">>

S_claim == <<"c","l","a","i","m">>

S_success == <<"s","u","c","c","e","s","s">>

S_error == <<"e","r","r","o","r">>

E_pending == "Your transaction is still in progress. This could take a few minutes to complete."

E_indexing == "The transaction has been detected but is still being indexed. Please check back soon."

E_revert == "The transaction on the destination chain failed and needs to be reverted. You should collect your funds."

E_failed == "The transaction has failed. Your funds may be reverted automatically."

E_claim == "The transaction was successful! You can now claim your tokens on the destination chain."

E_success == "The transaction was completed successfully! Your tokens have been sent to the destination address."

E_error == "An error occurred during the transaction. Please check the error message for details."

E_unknown == "Unknown status. Please check the Rubic interface for more information."

\* the switch with the claim case falling through to the success case
statusExplanation_merged(status) ==
  Ok(Msg(IF status = S_pending THEN E_pending
         ELSE IF status = S_indexing THEN E_indexing
         ELSE IF status = S_revert THEN E_revert
         ELSE IF status = S_failed THEN E_failed
         ELSE IF status \in {S_claim, S_success} THEN E_success
         ELSE IF status = S_error THEN E_error
         ELSE E_unknown, <<>>))

\* switch (data.status): the explanation appended to the text
statusExplanation(status) ==
  Ok(Msg(IF status = S_pending THEN E_pending
         ELSE IF status = S_indexing THEN E_indexing
         ELSE IF status = S_revert THEN E_revert
         ELSE IF status = S_failed THEN E_failed
         ELSE IF status = S_claim THEN E_claim
         ELSE IF status = S_success THEN E_success
         ELSE IF status = S_error THEN E_error
         ELSE E_unknown, <<>>))

\* `Label: ${value}` when the value is truthy
optionalLine(tpl, value) == IF Truthy(value) THEN <<Msg(tpl, <<value>>)>> ELSE <<>>

\* the state a result of getRubicBridgeStatus reports: data.status
reported(r) == IF r.via = "status" THEN Get(r.data, "status") ELSE JUndef

\* statusData holding on to a terminal state once it was reported for the hash
statusData_sticky(response) ==
  LET last == polls[call.srcTxHash]
  IN IF last.seen /\ reported(last.result) \in {JStr(s) : s \in {S_success, S_claim, S_revert, S_failed, S_error}}
     THEN last.result.data
     ELSE response.raw

\* statusData answering from the body last received for the same hash
statusData_cached(response) ==
  LET last == polls[call.srcTxHash]
  IN IF last.seen /\ last.answer.dir = "response" /\ ResponseOk(last.answer)
     THEN last.answer.raw
     ELSE response.raw

\* const data = await response.json(): the body of this answer
statusData(response) == response.raw

\* getRubicBridgeStatus from the end of the fetch to its return or throw
handleStatusResponse(response) ==
  IF response.dir = "failure" THEN Throw(response.m)
  ELSE IF ~ResponseOk(response)
  THEN Throw(rubicApiError(response.status, response.raw))
  ELSE IF statusData(response) = NotJson
  THEN Throw(Msg("SyntaxError: Unexpected token in JSON", <<>>))
  ELSE LET data == statusData(response)
       IN IF Nullish(data) THEN Throw(TypeError("data.srcTxHash"))
          ELSE IF Get(data, "status").t # "string" THEN Throw(TypeError("data.status.toUpperCase"))
          ELSE LET explanation == statusExplanation(Get(data, "status").s)
               IN IF explanation.threw THEN explanation
                  ELSE Ok(Returned("status",
                            <<Msg("Cross-Chain Transaction Status:", <<>>),
                              Msg("Source Transaction: ${data.srcTxHash}", <<Get(data, "srcTxHash")>>)>>
                            \o optionalLine("Destination Transaction: ${data.dstTxHash}", Get(data, "dstTxHash"))
                            \o <<Msg("Status: ${data.status.toUpperCase()}",
                                     <<JStr(toUpperCase(Get(data, "status").s))>>)>>
                            \o optionalLine("Message: ${data.message}", Get(data, "message"))
                            \o optionalLine("Error: ${data.error}", Get(data, "error"))
                            \o optionalLine("Bridge Provider: ${data.bridgeName}", Get(data, "bridgeName"))
                            \o <<Msg("Status Explanation:", <<>>), explanation.v>>,
                            data))

(***************************************************************************)
(* What the aggregator may answer.                                         *)
(***************************************************************************)
Statuses == {200, 404, 429, 500}

\* bodies of a non-2xx answer
S_rateLimited == <<"T","o","o"," ","M","a","n","y"," ","R","e","q","u","e","s","t","s">>

S_badQuote == <<"q","u","o","t","e"," ","e","x","p","i","r","e","d">>

ErrorBodies == {NotJson, MkObj(<<<<"message", JStr(S_rateLimited)>>>>)}

TxTo == S_0x \o Rep("1", 40)

TxTarget == S_0x \o Rep("2", 40)

TxTo3 == S_0x \o Rep("3", 40)

TxTo4 == S_0x \o Rep("4", 40)

DeepAddr == S_0x \o Rep("5", 40)

\* call data longer than the 40 characters the text shows
CallData == S_0x \o Rep("e", 44)

CallData2 == <<"0","x","b","b">>

\* the values of the key `transaction` in a swap answer
TransactionValues ==
  {JUndef, JNull}
  \cup {MkObj(<<<<"to", to>>, <<"targetAddress", targetAddress>>, <<"data", data>>, <<"value", value>>>>) :
          to \in {JUndef, JStr(<<>>), JStr(TxTo)},
          targetAddress \in {JUndef, JStr(TxTarget)},
          data \in {JUndef, JStr(CallData)},
          value \in {JUndef, JStr(<<"5">>)}}
  \cup {MkObj(<<<<"routeTransaction", MkObj(<<<<"targetAddress", JStr(TxTarget)>>>>)>>,
                <<"data", JStr(CallData)>>>>),
        MkObj(<<<<"to", JStr(TxTo)>>, <<"data", JNum(7, 1)>>,
                <<"approvalAddress", JStr(TxTarget)>>>>),
        MkObj(<<<<"to", JStr(TxTo)>>, <<"data", JStr(CallData2)>>,
                <<"approvalAddress", JStr(TxTarget)>>>>)}

TxValues ==
  {JUndef,
   MkObj(<<<<"to", JStr(TxTo3)>>, <<"data", JStr(CallData2)>>>>),
   MkObj(<<<<"data", JStr(CallData2)>>, <<"value", JStr(<<"7">>)>>>>)}

TransactionRequestValues ==
  {JUndef, MkObj(<<<<"targetAddress", JStr(TxTo4)>>, <<"data", JStr(CallData2)>>>>)}

\* an address two objects below the root, outside the three containers
RouteValues ==
  {JUndef, MkObj(<<<<"step", MkObj(<<<<"name", JStr(S_Unknown)>>, <<"contractAddress", JStr(DeepAddr)>>>>)>>>>)}

S_provider == <<"R","A","N","G","O">>

FullTransaction == MkObj(<<<<"to", JStr(TxTo)>>, <<"data", JStr(CallData)>>, <<"value", JStr(<<"5">>)>>>>)

\* 2xx bodies of /routes/swap
SwapBodies ==
  {MkObj(<<<<"id", JStr(Q_rango)>>, <<"provider", JStr(S_provider)>>,
           <<"transaction", transaction>>, <<"tx", tx>>,
           <<"transactionRequest", transactionRequest>>, <<"route", route>>>>) :
      transaction \in TransactionValues, tx \in TxValues,
      transactionRequest \in TransactionRequestValues, route \in RouteValues}
  \cup {MkObj(<<<<"error", JStr(S_badQuote)>>>>),
        MkObj(<<<<"statusCode", JNum(400, 1)>>, <<"message", JStr(S_badQuote)>>>>),
        MkObj(<<<<"message", JStr(S_badQuote)>>>>),
        MkObj(<<<<"message", JStr(S_badQuote)>>, <<"transaction", FullTransaction>>>>),
        MkObj(<<<<"error", JStr(S_badQuote)>>, <<"transaction", FullTransaction>>>>),
        MkObj(<<<<"message", MkObj(<<<<"text", JStr(S_badQuote)>>>>)>>, <<"transaction", FullTransaction>>>>),
        EmptyObj, JNull, JArr(<<>>), JNum(5, 1), NotJson}

S_ETH_symbol == <<"E","T","H">>

S_BNB_symbol == <<"B","N","B">>

RouteMin == MkObj(<<<<"id", JStr(Q_rango)>>, <<"providerType", JStr(S_provider)>>>>)

RouteFull ==
  MkObj(<<<<"id", JStr(Q_lifi)>>,
          <<"provider", JStr(S_LIFI)>>,
          <<"swapType", JStr(<<"c","r","o","s","s","-","c","h","a","i","n">>)>>,
          <<"tokens", MkObj(<<<<"from", MkObj(<<<<"amount", JStr(Amount)>>, <<"symbol", JStr(S_ETH_symbol)>>,
                                                <<"blockchain", JStr(C_ETH)>>, <<"price", JNum(2, 1)>>>>)>>,
                              <<"to", MkObj(<<<<"symbol", JStr(S_BNB_symbol)>>, <<"blockchain", JStr(C_BSC)>>>>)>>>>)>>,
          <<"estimate", MkObj(<<<<"destinationTokenAmount", JStr(<<"3">>)>>,
                                <<"destinationUsdAmount", JNum(5, 1)>>,
                                <<"durationInMinutes", JNum(4, 1)>>,
                                <<"priceImpact", JNum(1, 100)>>>>)>>,
          <<"fees", MkObj(<<<<"gasTokenFees",
                              MkObj(<<<<"nativeToken", MkObj(<<<<"symbol", JStr(S_ETH_symbol)>>>>)>>,
                                      <<"provider", MkObj(<<<<"fixedAmount", JStr(<<"1">>)>>,
                                                            <<"fixedUsdAmount", JNum(2, 1)>>>>)>>>>)>>,
                            <<"percentFees", MkObj(<<<<"percent", JNum(1, 10)>>>>)>>>>)>>,
          <<"warnings", JArr(<<>>)>>,
          <<"routing", JArr(<<MkObj(<<<<"provider", JStr(S_LIFI)>>, <<"type", JStr(<<"b","r","i","d","g","e">>)>>,
                                       <<"path", JArr(<<MkObj(<<<<"amount", JStr(Amount)>>,
                                                                 <<"symbol", JStr(S_ETH_symbol)>>>>),
                                                        MkObj(<<<<"amount", JStr(<<"3">>)>>,
                                                                 <<"symbol", JStr(S_BNB_symbol)>>>>)>>)>>>>)>>)>>>>)

\* a route whose gasTokenFees lack the provider fee
RouteBadFees ==
  MkObj(<<<<"id", JStr(Q_spaces)>>, <<"fees", MkObj(<<<<"gasTokenFees", EmptyObj>>>>)>>>>)

RouteElems == {RouteMin, RouteFull, RouteBadFees, JNull}

RECURSIVE SeqsUpTo(_, _)
\* the sequences over S of length at most n
SeqsUpTo(S, n) ==
  IF n = 0 THEN {<<>>}
  ELSE SeqsUpTo(S, n - 1) \cup {Append(q, x) : q \in {r \in SeqsUpTo(S, n - 1) : Len(r) = n - 1}, x \in S}

\* 2xx bodies of /routes/quoteAll and /routes/quoteBest
QuoteBodies ==
  {JArr(a) : a \in SeqsUpTo(RouteElems, MaxRoutes)}
  \cup {RouteMin, RouteFull, RouteBadFees, EmptyObj, JNull, NotJson, JNum(5, 1),
        MkObj(<<<<"message", JStr(S_badQuote)>>>>),
        MkObj(<<<<"routes", JArr(<<RouteMin>>)>>>>)}

\* 2xx bodies of /info/chains
S_EVM == <<"E","V","M">>

ChainETH ==
  MkObj(<<<<"name", JStr(C_ETH)>>, <<"id", JNum(1, 1)>>, <<"testnet", JBool(FALSE)>>,
          <<"providers", MkObj(<<<<"crossChain", JArr(<<JStr(S_LIFI), JStr(S_SYMBIOSIS)>>)>>,
                                 <<"onChain", JArr(<<>>)>>>>)>>,
          <<"proxyAvailable", JBool(TRUE)>>, <<"type", JStr(S_EVM)>>>>)

ChainTestnet ==
  MkObj(<<<<"name", JStr(C_BSC)>>, <<"id", JNum(97, 1)>>, <<"testnet", JBool(TRUE)>>,
          <<"providers", MkObj(<<<<"crossChain", JArr(<<>>)>>, <<"onChain", JArr(<<>>)>>>>)>>,
          <<"proxyAvailable", JBool(FALSE)>>, <<"type", JStr(S_EVM)>>>>)

ChainNoProviders == MkObj(<<<<"name", JStr(C_Sol)>>, <<"id", JNum(7, 1)>>>>)

ChainNoOnChain ==
  MkObj(<<<<"name", JStr(C_Sol)>>, <<"providers", MkObj(<<<<"crossChain", JArr(<<>>)>>>>)>>>>)

ChainBodies ==
  {JArr(<<>>), JArr(<<ChainETH>>), JArr(<<ChainETH, ChainTestnet>>), JArr(<<ChainETH, ChainNoProviders>>),
   JArr(<<ChainNoOnChain>>), JArr(<<JNull>>), EmptyObj, JNull, NotJson}

\* 2xx bodies of /info/status
KnownStatuses == {S_pending, S_indexing, S_revert, S_failed, S_claim, S_success, S_error}

S_foo == <<"f","o","o">>

S_SUCCESS == <<"S","U","C","C","E","S","S">>

UnknownStatuses == {S_foo, S_SUCCESS, <<>>}

S_reverted == <<"r","e","v","e","r","t","e","d">>

StatusFull ==
  MkObj(<<<<"srcTxHash", JStr(Hash1)>>, <<"dstTxHash", JStr(Hash2)>>, <<"status", JStr(S_success)>>,
          <<"bridgeName", JStr(S_LIFI)>>>>)

StatusWithError ==
  MkObj(<<<<"srcTxHash", JStr(Hash1)>>, <<"status", JStr(S_error)>>,
          <<"message", JStr(S_badQuote)>>, <<"error", JStr(S_reverted)>>>>)

StatusBodies ==
  {MkObj(<<<<"status", JStr(s)>>>>) : s \in KnownStatuses \cup UnknownStatuses}
  \cup {StatusFull, StatusWithError,
        EmptyObj, MkObj(<<<<"status", JNum(7, 1)>>>>), MkObj(<<<<"status", JNull>>>>),
        JNull, NotJson, JNum(5, 1)}

ResponseBodies(url, status) ==
  IF status < 200 \/ status > 299 THEN ErrorBodies
  ELSE IF url = URL_swap THEN SwapBodies
  ELSE IF url = URL_chains THEN ChainBodies
  ELSE IF url = URL_status THEN StatusBodies
  ELSE QuoteBodies

(***************************************************************************)
(* The tools.  A tool runs from its entry to its fetch (or to its return)  *)
(* in one step, and from the answer of the fetch to its return in another. *)
(***************************************************************************)
\* Live reading the parameters from a place the invocations share: those of
\* the other invocation of the same tool, when there is one
Live_shared(c) ==
  LET d == IF other.call.op = c.op THEN other.call ELSE c
  IN IF d.op = "prepareRubicBridgeSwap"
     THEN [op |-> d.op, quoteId |-> d.quoteId, srcTokenBlockchain |-> d.srcTokenBlockchain]
     ELSE IF d.op = "getRubicBridgeStatus"
     THEN [op |-> d.op, srcTxHash |-> d.srcTxHash]
     ELSE [op |-> d.op]

\* the variables of an invocation that are still read after its fetch
Live(c) ==
  IF c.op = "prepareRubicBridgeSwap"
  THEN [op |-> c.op, quoteId |-> c.quoteId, srcTokenBlockchain |-> c.srcTokenBlockchain]
  ELSE IF c.op = "getRubicBridgeStatus"
  THEN [op |-> c.op, srcTxHash |-> c.srcTxHash]
  ELSE [op |-> c.op]

\* the includeTestnets parameter: omitted, true or false
TestnetArgs == {JUndef, JBool(TRUE), JBool(FALSE)}

\* includeTestnets.toString()
booleanToString(b) == IF b.b THEN <<"t","r","u","e">> ELSE <<"f","a","l","s","e">>

getRubicSupportedChains ==
  /\ pc = "idle"
  /\ \E includeTestnets \in TestnetArgs :
       /\ call' = [op |-> "getRubicSupportedChains"]
       /\ FetchGet(URL_chains,
                   [includeTestnets |-> booleanToString(Default(includeTestnets, JBool(FALSE)))])
  /\ UNCHANGED env

getRubicBridgeStatus ==
  /\ pc = "idle"
  /\ \E srcTxHash \in Hashes :
       /\ call' = [op |-> "getRubicBridgeStatus", srcTxHash |-> srcTxHash]
       /\ FetchGet(URL_status, [srcTxHash |-> srcTxHash])
  /\ UNCHANGED env

getRubicBridgeQuote ==
  /\ pc = "idle"
  /\ \E walletAddress \in AddressArgs, slippageTolerance \in SlippageArgs :
       /\ call' = [op |-> "getRubicBridgeQuote", walletAddress |-> walletAddress,
                   slippageTolerance |-> slippageTolerance]
       /\ Fetch(URL_quoteBest, quoteRequestBody(C_ETH, walletAddress, slippageTolerance))
  /\ UNCHANGED env

getRubicBridgeQuotes ==
  /\ pc = "idle"
  /\ \E walletAddress \in AddressArgs, slippageTolerance \in SlippageArgs :
       /\ call' = [op |-> "getRubicBridgeQuotes", walletAddress |-> walletAddress,
                   slippageTolerance |-> slippageTolerance]
       /\ Fetch(URL_quoteAll, quoteRequestBody(C_ETH, walletAddress, slippageTolerance))
  /\ UNCHANGED env

\* the STARGATE test comparing the quote id as it is written
isManualProvider_caseSensitive(quoteId) == includes(quoteId, S_STARGATE)

\* quoteId.toUpperCase().includes('STARGATE'): a provider without a programmatic path
isManualProvider(quoteId) == includes(toUpperCase(quoteId), S_STARGATE)

\* the informational result for a STARGATE quote
stargateResult(quoteId, srcTokenBlockchain) ==
  Returned("stargate",
    <<Msg("Stargate Bridge Swap Information:", <<>>),
      Msg("Chain: ${srcTokenBlockchain}", <<JStr(srcTokenBlockchain)>>),
      Msg("Provider: ${quoteId}", <<JStr(quoteId)>>),
      Msg("Stargate bridging from ${srcTokenBlockchain} to ${dstTokenBlockchain} requires:",
          <<JStr(srcTokenBlockchain), JStr(C_BSC)>>),
      Msg("1. Amount: ${srcTokenAmount} ${srcTokenBlockchain === 'OPTIMISM' ? 'ETH' : srcTokenBlockchain}",
          <<JStr(Amount),
            JStr(IF srcTokenBlockchain = <<"O","P","T","I","M","I","S","M">> THEN S_ETH_symbol
                 ELSE srcTokenBlockchain)>>),
      Msg("2. Destination: ${dstTokenBlockchain}", <<JStr(C_BSC)>>),
      Msg("This provider currently requires manual transaction construction.", <<>>)>>,
    MkObj(<<<<"error", JStr(<<"m","a","n","u","a","l">>)>>,
            <<"quoteId", JStr(quoteId)>>,
            <<"blockchain", JStr(srcTokenBlockchain)>>,
            <<"sourceToken", MkObj(<<<<"address", JStr(NativeToken)>>,
                                    <<"blockchain", JStr(srcTokenBlockchain)>>>>)>>,
            <<"destinationToken", MkObj(<<<<"address", JStr(NativeToken)>>,
                                         <<"blockchain", JStr(C_BSC)>>>>)>>,
            <<"provider", JStr(quoteId)>>>>))

P_swap == "Failed to prepare bridge swap: ${error.message}"

P_quote == "Failed to get bridge quote: ${error.message}"

P_quotes == "Failed to get bridge quotes: ${error.message}"

\* prepareRubicBridgeSwap called with a quote id out of quoteIds and a receiver
\* out of receivers
prepareRubicBridgeSwapWith(quoteIds, receivers) ==
  /\ pc = "idle"
  /\ \E quoteId \in quoteIds, fromAddress \in AddressArgs, srcTokenBlockchain \in SrcChains,
        receiver \in receivers, slippageTolerance \in SlippageArgs :
       /\ call' = [op |-> "prepareRubicBridgeSwap", quoteId |-> quoteId, fromAddress |-> fromAddress,
                   srcTokenBlockchain |-> srcTokenBlockchain, receiver |-> receiver,
                   slippageTolerance |-> slippageTolerance]
       /\ IF isManualProvider(quoteId)
          THEN ReturnNow(stargateResult(quoteId, srcTokenBlockchain))
          ELSE IF resolveFromAddress(fromAddress).threw
          THEN ReturnNow(Failed(P_swap, resolveFromAddress(fromAddress).m))
          ELSE Fetch(URL_swap, swapRequestBody(quoteId, resolveFromAddress(fromAddress).v,
                                               srcTokenBlockchain, receiver, slippageTolerance))
  /\ UNCHANGED env

prepareRubicBridgeSwap == prepareRubicBridgeSwapWith(QuoteIds, ReceiverArgs)

\* the request leaves the process and reaches the aggregator; from here on the
\* invocation keeps only the variables it still reads
Deliver ==
  /\ pc = "awaiting"
  /\ net.dir = "request"
  /\ net' = [dir |-> "pending", url |-> net.url]
  /\ call' = Live(call)
  /\ UNCHANGED <<env, pc, result, nRequests, other, polls>>

\* the aggregator answers the request it received
Upstream ==
  /\ pc = "awaiting"
  /\ net.dir = "pending"
  /\ \E status \in Statuses : \E raw \in ResponseBodies(net.url, status) :
       net' = [dir |-> "response", url |-> net.url, status |-> status, raw |-> raw]
  /\ UNCHANGED <<env, pc, call, result, nRequests, other, polls>>

\* the exchange fails on the network: fetch rejects
NetworkFailure ==
  /\ pc = "awaiting"
  /\ net.dir = "pending"
  /\ net' = [dir |-> "failure", url |-> net.url, m |-> Msg("fetch failed", <<>>)]
  /\ UNCHANGED <<env, pc, call, result, nRequests, other, polls>>

\* the caller takes the result; the process is ready for the next invocation
Complete ==
  /\ pc = "done"
  /\ pc' = "idle"
  /\ call' = NoCall
  /\ result' = NoResult
  /\ nRequests' = 0
  /\ UNCHANGED <<env, net, other, polls>>

\* Return sending the request again when it has failed
Return_retry(op, handled, prefix) ==
  /\ pc = "awaiting"
  /\ net.dir \in {"response", "failure"}
  /\ call.op = op
  /\ IF net.dir = "failure" \/ ~ResponseOk(net)
     THEN /\ net' = [dir |-> "request", url |-> net.url, method |-> "GET", query |-> <<>>]
          /\ nRequests' = nRequests + 1
          /\ UNCHANGED <<pc, result>>
     ELSE /\ result' = IF handled.threw THEN Failed(prefix, handled.m) ELSE handled.v
          /\ pc' = "done"
          /\ net' = NoMessage
          /\ UNCHANGED nRequests
  /\ UNCHANGED <<env, call>>

\* the tool returns: the handler's value, or the text of its catch block
Return(op, handled, prefix) ==
  /\ pc = "awaiting"
  /\ net.dir \in {"response", "failure"}
  /\ call.op = op
  /\ result' = IF handled.threw THEN Failed(prefix, handled.m) ELSE handled.v
  /\ pc' = "done"
  /\ net' = NoMessage
  /\ UNCHANGED <<env, call, nRequests>>

AfterFetch(op, handled, prefix) ==
  /\ Return(op, handled, prefix)
  /\ UNCHANGED <<other, polls>>

getRubicBridgeQuote_afterFetch ==
  AfterFetch("getRubicBridgeQuote", handleQuoteResponse(net), P_quote)

getRubicBridgeQuotes_afterFetch ==
  AfterFetch("getRubicBridgeQuotes", handleQuotesResponse(net), P_quotes)

prepareRubicBridgeSwap_afterFetch ==
  AfterFetch("prepareRubicBridgeSwap",
             handleSwapResponse(call.quoteId, call.srcTokenBlockchain, net), P_swap)

getRubicSupportedChains_afterFetch ==
  AfterFetch("getRubicSupportedChains", handleChainsResponse(net), P_chains)

getRubicBridgeStatus_afterFetch ==
  AfterFetch("getRubicBridgeStatus", handleStatusResponse(net), P_status)

\* getRubicBridgeStatus returns, and the answer it received and the result it
\* gave are noted under its hash, next to the state reported the time before
getRubicBridgeStatus_afterFetch_noted ==
  /\ Return("getRubicBridgeStatus", handleStatusResponse(net), P_status)
  /\ polls' = [polls EXCEPT ![call.srcTxHash] =
                 [seen |-> TRUE, answer |-> net, result |-> result',
                  before |-> IF polls[call.srcTxHash].seen
                             THEN reported(polls[call.srcTxHash].result) ELSE JUndef]]
  /\ UNCHANGED other

Next ==
  \/ getRubicSupportedChains
  \/ getRubicBridgeQuote
  \/ getRubicBridgeQuotes
  \/ getRubicBridgeStatus
  \/ prepareRubicBridgeSwap
  \/ Deliver
  \/ Upstream
  \/ NetworkFailure
  \/ getRubicSupportedChains_afterFetch
  \/ getRubicBridgeQuote_afterFetch
  \/ getRubicBridgeQuotes_afterFetch
  \/ getRubicBridgeStatus_afterFetch
  \/ prepareRubicBridgeSwap_afterFetch
  \/ Complete

Spec == Init /\ [][Next]_vars

(***************************************************************************)
(* Repeated status queries: getRubicBridgeStatus is invoked again and      *)
(* again, and for every hash the last answer and the last result are       *)
(* noted, so that a call can be compared with the one before it.           *)
(***************************************************************************)
InitPoll ==
  /\ Init
  /\ env = [ETH_PUBLIC_ADDRESS |-> JUndef, ETH_PRIVATE_KEY |-> JUndef]

\* the answers followed over repeated queries: a failed exchange, a 500, and
\* 2xx bodies with the tokens of the lifecycle, an unknown token and no token
PollAnswer ==
  net.dir = "response" =>
    /\ net.status \in {200, 500}
    /\ net.raw \in {NotJson, MkObj(<<<<"status", JNull>>>>)}
                   \cup {MkObj(<<<<"status", JStr(s)>>>>) :
                           s \in {S_pending, S_indexing, S_success, S_failed, S_foo}}

NextPoll ==
  \/ getRubicBridgeStatus
  \/ Deliver
  \/ Upstream /\ PollAnswer'
  \/ NetworkFailure
  \/ getRubicBridgeStatus_afterFetch_noted
  \/ Complete

SpecPoll == InitPoll /\ [][NextPoll]_vars

(***************************************************************************)
(* Two invocations at once.  The tools are async functions: at each await  *)
(* the event loop may run another invocation.  The variables pc, call,     *)
(* net, result and nRequests are those of the invocation that runs;        *)
(* `other` holds those of the invocation that waits its turn.              *)
(***************************************************************************)
\* the event loop turns to the other invocation
Switch ==
  /\ other # [pc |-> pc, call |-> call, net |-> net, result |-> result, nRequests |-> nRequests]
  /\ pc' = other.pc
  /\ call' = other.call
  /\ net' = other.net
  /\ result' = other.result
  /\ nRequests' = other.nRequests
  /\ other' = [pc |-> pc, call |-> call, net |-> net, result |-> result, nRequests |-> nRequests]
  /\ UNCHANGED <<env, polls>>

\* the answers followed with two invocations at once
ConcBodies(url) ==
  IF url = URL_swap
  THEN {NotJson, MkObj(<<<<"error", JStr(S_badQuote)>>>>),
        MkObj(<<<<"id", JStr(Q_rango)>>, <<"provider", JStr(S_provider)>>,
                <<"transaction", FullTransaction>>>>)}
  ELSE IF url = URL_chains THEN {NotJson, JArr(<<ChainETH>>)}
  ELSE IF url = URL_status
  THEN {NotJson} \cup {MkObj(<<<<"status", JStr(s)>>>>) : s \in {S_pending, S_success, S_foo}}
  ELSE {NotJson, JArr(<<>>), JArr(<<RouteMin>>), RouteMin}

\* the arguments and answers followed with two invocations at once
ConcScope ==
  /\ "walletAddress" \in DOMAIN call =>
       call.walletAddress = JStr(ExplicitAddr) /\ call.slippageTolerance = JUndef
  /\ "fromAddress" \in DOMAIN call =>
       /\ call.quoteId \in {Q_rango, Q_lifi, Q_stargate}
       /\ call.srcTokenBlockchain \in {C_ETH, C_Sol}
       /\ call.fromAddress \in {JStr(ExplicitAddr), JUndef}
       /\ call.receiver = JUndef
       /\ call.slippageTolerance = JUndef
  /\ net.dir = "response" =>
       /\ net.status \in {200, 500}
       /\ net.raw \in (IF net.status = 200 THEN ConcBodies(net.url) ELSE {NotJson})

NextConc ==
  \/ getRubicSupportedChains /\ ConcScope'
  \/ getRubicBridgeQuote /\ ConcScope'
  \/ getRubicBridgeQuotes /\ ConcScope'
  \/ getRubicBridgeStatus /\ ConcScope'
  \/ prepareRubicBridgeSwap /\ ConcScope'
  \/ Deliver
  \/ Upstream /\ ConcScope'
  \/ NetworkFailure
  \/ getRubicSupportedChains_afterFetch
  \/ getRubicBridgeQuote_afterFetch
  \/ getRubicBridgeQuotes_afterFetch
  \/ getRubicBridgeStatus_afterFetch
  \/ prepareRubicBridgeSwap_afterFetch
  \/ Complete
  \/ Switch

SpecConc == InitPoll /\ [][NextConc]_vars

(***************************************************************************)
(* The dispatch of prepareRubicBridgeSwap over a wider choice of quote     *)
(* ids: each of the five provider names in some letter case, embedded in   *)
(* the id, and ids that come close to a name without containing it.        *)
(***************************************************************************)
DispatchIds ==
  {Q_rango, Q_lifi, Q_spaces,
   <<"s","q","u","i","d","R","o","u","t","e","r",":","1">>,
   <<"x","-","S","y","m","b","i","o","s","i","s">>,
   <<"7","A","C","R","O","S","S","7">>,
   <<"b","r","i","d","g","e","d">>,
   <<"L","I","F","1">>,
   <<"a","c","r","o","s","-","s">>,
   <<"B","R","I","D","G","E">>}

\* the other arguments are those of a plain call
DispatchScope ==
  "fromAddress" \in DOMAIN call =>
    /\ call.fromAddress = JStr(ExplicitAddr)
    /\ call.receiver = JUndef
    /\ call.slippageTolerance = JUndef
    /\ call.srcTokenBlockchain \in {C_ETH, C_Sol}

NextDispatch ==
  \/ prepareRubicBridgeSwapWith(DispatchIds, ReceiverArgs) /\ DispatchScope'
  \/ Deliver
  \/ Upstream
  \/ NetworkFailure
  \/ prepareRubicBridgeSwap_afterFetch
  \/ Complete

SpecDispatch == InitPoll /\ [][NextDispatch]_vars

(***************************************************************************)
(* withRetry(fn, maxRetries) of the TON tools.  call holds maxRetries and  *)
(* the local variable retries, nRequests counts the calls of fn, net holds *)
(* the pending call of fn, its outcome, or the running back-off timer.     *)
(***************************************************************************)
\* the largest maxRetries followed; 5 is the default of the parameter
TopMaxRetries == 5

S_429 == <<"4","2","9">>

\* what fn may throw: a rate-limit error, two other errors (one of them close
\* to a rate-limit message), and a value that is no Error and has no message
FnErrors ==
  {[message |-> JStr(<<"H","T","T","P"," ","4","2","9",":"," ","s","l","o","w">>)],
   [message |-> JStr(<<"e","x","i","t"," ","4","2">>)],
   [message |-> JStr(<<"s","e","q","n","o"," ","4","2","-","9">>)],
   [message |-> JUndef]}

RECURSIVE Pow2(_)
\* Math.pow(2, n)
Pow2(n) == IF n = 0 THEN 1 ELSE 2 * Pow2(n - 1)

\* the test of the catch block retrying after any error
shouldRethrow_anyError(retries, maxRetries, error) == retries > maxRetries

\* retries > maxRetries || !error.message.includes('429')
shouldRethrow(retries, maxRetries, error) ==
  retries > maxRetries \/ ~includes(error.message.s, S_429)

InitRetry ==
  /\ env = [ETH_PUBLIC_ADDRESS |-> JUndef, ETH_PRIVATE_KEY |-> JUndef]
  /\ pc = "idle"
  /\ call \in {[op |-> "withRetry", maxRetries |-> n, retries |-> 0] : n \in 0..TopMaxRetries}
  /\ net = NoMessage
  /\ result = NoResult
  /\ nRequests = 0
  /\ other = NoInvocation
  /\ polls = [h \in Hashes |-> NoPoll]

\* try { return await fn() ...: fn is called, at the start or after the delay
withRetry_try ==
  /\ pc \in {"idle", "waiting"}
  /\ call.op = "withRetry"
  /\ pc' = "calling"
  /\ net' = [dir |-> "fn"]
  /\ nRequests' = nRequests + 1
  /\ UNCHANGED <<env, call, result, other, polls>>

\* the promise of fn resolves
fnResolves ==
  /\ pc = "calling"
  /\ net.dir = "fn"
  /\ net' = [dir |-> "resolved", value |-> JNum(nRequests, 1)]
  /\ UNCHANGED <<env, pc, call, result, nRequests, other, polls>>

\* the promise of fn rejects
fnRejects ==
  /\ pc = "calling"
  /\ net.dir = "fn"
  /\ \E error \in FnErrors : net' = [dir |-> "rejected", error |-> error]
  /\ UNCHANGED <<env, pc, call, result, nRequests, other, polls>>

\* return await fn()
withRetry_return ==
  /\ pc = "calling"
  /\ net.dir = "resolved"
  /\ result' = [via |-> "return", value |-> net.value]
  /\ pc' = "done"
  /\ net' = NoMessage
  /\ UNCHANGED <<env, call, nRequests, other, polls>>

\* catch (error): count the retry, rethrow or start the back-off delay
withRetry_catch ==
  /\ pc = "calling"
  /\ net.dir = "rejected"
  /\ LET retries == call.retries + 1
     IN /\ call' = [call EXCEPT !.retries = retries]
        /\ IF retries <= call.maxRetries /\ net.error.message.t # "string"
           THEN /\ result' = [via |-> "throw", error |-> [message |-> TypeError("error.message.includes")]]
                /\ pc' = "done"
                /\ net' = NoMessage
           ELSE IF shouldRethrow(retries, call.maxRetries, net.error)
           THEN /\ result' = [via |-> "throw", error |-> net.error]
                /\ pc' = "done"
                /\ net' = NoMessage
           ELSE /\ net' = [dir |-> "timer", delay |-> Pow2(retries - 1) * 1000]
                /\ pc' = "waiting"
                /\ UNCHANGED result
  /\ UNCHANGED <<env, nRequests, other, polls>>

NextRetry ==
  \/ withRetry_try
  \/ fnResolves
  \/ fnRejects
  \/ withRetry_return
  \/ withRetry_catch

\* every call of fn ends, every timer fires and every continuation is run
SpecRetry == InitRetry /\ [][NextRetry]_vars /\ WF_vars(NextRetry)

(***************************************************************************)
(* The requests of the three tools that send wallet addresses, with a      *)
(* receiver that may be one of the placeholders; the aggregator's answer   *)
(* plays no part and is a 500.                                             *)
(***************************************************************************)
\* the receiver parameter, a placeholder included
ReceiverArgsWide == ReceiverArgs \cup {JStr(p) : p \in Placeholders}

AddressScope ==
  /\ "slippageTolerance" \in DOMAIN call => call.slippageTolerance = JUndef
  /\ "srcTokenBlockchain" \in DOMAIN call => call.srcTokenBlockchain = C_ETH
  /\ net.dir = "response" => net.status = 500

NextAddress ==
  \/ getRubicBridgeQuote /\ AddressScope'
  \/ getRubicBridgeQuotes /\ AddressScope'
  \/ prepareRubicBridgeSwapWith(QuoteIds, ReceiverArgsWide) /\ AddressScope'
  \/ Deliver
  \/ Upstream /\ AddressScope'
  \/ NetworkFailure
  \/ getRubicBridgeQuote_afterFetch
  \/ getRubicBridgeQuotes_afterFetch
  \/ prepareRubicBridgeSwap_afterFetch
  \/ Complete

SpecAddress == Init /\ [][NextAddress]_vars

(***************************************************************************)
(* findToAddress on its own: the scan is applied to an object drawn from   *)
(* a set of objects that hold one value, under one key, at one depth.      *)
(***************************************************************************)
\* the deepest nesting of the objects scanned
MaxDepth == 5

RECURSIVE Nested(_, _, _)
\* the object that holds v under key k in an object d levels below its root
Nested(d, k, v) ==
  IF d = 0 THEN MkObj(<<<<"name", JStr(S_Unknown)>>, <<k, v>>>>)
  ELSE MkObj(<<<<"id", JNum(d, 1)>>, <<"inner", Nested(d - 1, k, v)>>>>)

ScanKeys == {"to", "targetAddress", "contractAddress", "from", "To", "address"}

\* a hex address, 0x with forty characters that are no hex digits, 0x with
\* thirty-nine hex digits, forty-two hex digits without 0x, a number
ScanValues ==
  {JStr(DeepAddr), JStr(S_0x \o Rep("z", 40)), JStr(S_0x \o Rep("5", 39)),
   JStr(Rep("5", 42)), JNum(5, 1)}

ScanInputs ==
  {Nested(d, k, v) : d \in 0..MaxDepth, k \in ScanKeys, v \in ScanValues}
  \cup {JArr(<<Nested(1, "to", JStr(DeepAddr))>>), JArr(<<JStr(DeepAddr)>>), JNull, EmptyObj,
        MkObj(<<<<"a", JNull>>, <<"to", JStr(TxTo)>>, <<"targetAddress", JStr(TxTarget)>>>>)}

InitScan ==
  /\ env = [ETH_PUBLIC_ADDRESS |-> JUndef, ETH_PRIVATE_KEY |-> JUndef]
  /\ pc = "idle"
  /\ call \in {[op |-> "findToAddress", obj |-> obj] : obj \in ScanInputs}
  /\ net = NoMessage
  /\ result = NoResult
  /\ nRequests = 0
  /\ other = NoInvocation
  /\ polls = [h \in Hashes |-> NoPoll]

\* txData.to = findToAddress(data)
Scan ==
  /\ pc = "idle"
  /\ call.op = "findToAddress"
  /\ result' = [via |-> "scan", found |-> findToAddress(call.obj, 0)]
  /\ pc' = "done"
  /\ UNCHANGED <<env, call, net, nRequests, other, polls>>

NextScan == Scan

SpecScan == InitScan /\ [][NextScan]_vars

(***************************************************************************)
(* Vocabulary of the properties.                                           *)
(***************************************************************************)
RECURSIVE ValuesUnder(_, _)
\* the values stored under one of the keys in any object nested in v
ValuesUnder(v, keys) ==
  IF v.t = "object"
  THEN UNION {(IF k \in keys THEN {v.o[k]} ELSE {}) \cup ValuesUnder(v.o[k], keys) : k \in DOMAIN v.o}
  ELSE IF v.t = "array"
  THEN UNION {ValuesUnder(v.a[i], keys) : i \in 1..Len(v.a)}
  ELSE {}

\* the invocation still holds its arguments (its request has not left yet)
HasArgs == "slippageTolerance" \in DOMAIN call

\* the explicit address argument of the running invocation
ExplicitArg == IF call.op = "prepareRubicBridgeSwap" THEN call.fromAddress ELSE call.walletAddress

\* the field of the request body that carries the resolved address
ResolvedField == IF call.op = "prepareRubicBridgeSwap" THEN "fromAddress" ELSE "walletAddress"

IsPlaceholderArg(a) == a.t = "string" /\ a.s \in Placeholders

\* an explicit address that is given and is not a placeholder
IsRealArg(a) == Truthy(a) /\ a.s \notin Placeholders

PublicConfigured == Truthy(env.ETH_PUBLIC_ADDRESS)

\* the configured private key, with its 0x prefix
ConfiguredKey ==
  IF startsWith(env.ETH_PRIVATE_KEY.s, S_0x) THEN env.ETH_PRIVATE_KEY.s ELSE S_0x \o env.ETH_PRIVATE_KEY.s

KeyDerivable == Truthy(env.ETH_PRIVATE_KEY) /\ ~Wallet(ConfiguredKey).threw

DerivedAddress == Wallet(ConfiguredKey).v

\* a POST request of the running invocation (a quote or a swap request) is on
\* the wire, its arguments still at hand
RequestOut == pc = "awaiting" /\ net.dir = "request" /\ net.method = "POST"

SwapStarted == call.op = "prepareRubicBridgeSwap" /\ HasArgs /\ ~includes(toUpperCase(call.quoteId), S_STARGATE)

(***************************************************************************)
(* C1: a successful prepareRubicBridgeSwap result of the default or the    *)
(* special-provider handler carries a non-empty `to` and a non-empty       *)
(* `data`, a successful Solana result a non-empty payload, and each of     *)
(* them is a value the upstream response holds under that field's key:     *)
(* when the response holds none the tool fails, it never fills one in.     *)
(***************************************************************************)
C1_Post ==
  LET transaction == Get(result'.data, "transaction")
  IN /\ result'.via \in {"special", "default", "solana", "catch"}
     /\ result'.via \in {"special", "default"} =>
          /\ Truthy(Get(transaction, "to"))
          /\ Truthy(Get(transaction, "data"))
          /\ Get(transaction, "to") \in ValuesUnder(net.raw, AddressKeys)
          /\ Get(transaction, "data") \in ValuesUnder(net.raw, {"data"})
     /\ result'.via = "solana" =>
          /\ Truthy(Get(result'.data, "transactionData"))
          /\ Get(result'.data, "transactionData") = Get(Get(net.raw, "transaction"), "data")

C1_MandatoryFields == [][prepareRubicBridgeSwap_afterFetch => C1_Post]_vars

\* a special-provider swap returned with the address only the scan could find
C1_Witness ==
  /\ pc = "done"
  /\ call.op = "prepareRubicBridgeSwap"
  /\ result.via = "special"
  /\ Get(Get(result.data, "transaction"), "to") = JStr(DeepAddr)
  /\ Truthy(Get(Get(result.data, "transaction"), "data"))

(***************************************************************************)
(* C2: the `id` of every /routes/swap request body is the caller's quoteId,*)
(* character for character.                                                *)
(***************************************************************************)
C2_QuoteIdVerbatim ==
  (RequestOut /\ net.url = URL_swap) =>
     /\ call.op = "prepareRubicBridgeSwap"
     /\ Get(net.body, "id") = JStr(call.quoteId)

\* a swap request for a quote id with blanks and mixed case is on the wire
C2_Witness ==
  /\ RequestOut
  /\ net.url = URL_swap
  /\ call.quoteId = Q_spaces
  /\ Get(net.body, "id") = JStr(Q_spaces)

C4_Priority ==
  /\ RequestOut =>
       /\ IsRealArg(ExplicitArg) => Get(net.body, ResolvedField) = ExplicitArg
       /\ (~IsRealArg(ExplicitArg) /\ PublicConfigured) =>
            Get(net.body, ResolvedField) = env.ETH_PUBLIC_ADDRESS
       /\ (~IsRealArg(ExplicitArg) /\ ~PublicConfigured /\ KeyDerivable) =>
            Get(net.body, ResolvedField) = DerivedAddress
  /\ (SwapStarted /\ pc = "done") =>
       (~IsRealArg(ExplicitArg) /\ ~PublicConfigured /\ ~KeyDerivable)

\* a placeholder was passed while both a public address and a key are configured:
\* the public address goes out
C4_Witness ==
  /\ RequestOut
  /\ IsPlaceholderArg(ExplicitArg)
  /\ PublicConfigured
  /\ KeyDerivable
  /\ Get(net.body, ResolvedField) = env.ETH_PUBLIC_ADDRESS

(***************************************************************************)
(* C5 as stated: when the explicit address is absent or a placeholder and  *)
(* neither a public address nor a derivable key is configured, each of     *)
(* getRubicBridgeQuote, getRubicBridgeQuotes and prepareRubicBridgeSwap    *)
(* fails and sends no HTTP request.                                        *)
(***************************************************************************)
Unresolvable == ~IsRealArg(ExplicitArg) /\ ~PublicConfigured /\ ~KeyDerivable

C5_Original ==
  (HasArgs /\ Unresolvable) =>
     /\ pc = "done"
     /\ result.via = "catch"
     /\ nRequests = 0
     /\ net = NoMessage

(***************************************************************************)
(* C5 amended: in that situation prepareRubicBridgeSwap (for a quote id    *)
(* that is not answered by the STARGATE short-circuit) fails with the      *)
(* address-resolution error and sends no HTTP request, while               *)
(* getRubicBridgeQuote and getRubicBridgeQuotes do not fail: they send     *)
(* their request without a walletAddress field.                            *)
(***************************************************************************)
C5_UnresolvedAddress ==
  (HasArgs /\ Unresolvable) =>
     /\ SwapStarted =>
          /\ pc = "done"
          /\ result.via = "catch"
          /\ result.text[1].tpl = P_swap
          /\ result.text[1].args[1].tpl =
               "No valid fromAddress provided and failed to get from private key: ${error}"
          /\ nRequests = 0
          /\ net = NoMessage
     /\ call.op \in {"getRubicBridgeQuote", "getRubicBridgeQuotes"} =>
          /\ RequestOut
          /\ nRequests = 1
          /\ "walletAddress" \notin DOMAIN net.body.o

\* the swap tool has failed on a placeholder address with nothing configured
C5_Witness ==
  /\ pc = "done"
  /\ SwapStarted
  /\ IsPlaceholderArg(call.fromAddress)
  /\ Unresolvable
  /\ result.via = "catch"
  /\ nRequests = 0

(***************************************************************************)
(* C6: the swap request carries the caller's receiver when one is given,   *)
(* and the resolved wallet address (the value of fromAddress) as receiver  *)
(* when none is given.                                                     *)
(***************************************************************************)
C6_ReceiverDefault ==
  (RequestOut /\ net.url = URL_swap) =>
     Get(net.body, "receiver") =
        (IF Truthy(call.receiver) THEN call.receiver ELSE Get(net.body, "fromAddress"))

(***************************************************************************)
(* C7: the slippageTolerance of every quoteBest, quoteAll and swap request *)
(* body, times 100, is the caller's percentage (1 when omitted).           *)
(***************************************************************************)
C7_SlippageFraction ==
  RequestOut =>
     LET p == Default(call.slippageTolerance, JNum(1, 1))
         sent == Get(net.body, "slippageTolerance")
     IN /\ sent.t = "number"
        /\ sent.num * 100 * p.den = p.num * sent.den

\* the smallest percentage, 0.01, goes out as 1/10000 in a quoteAll request
C7_Witness ==
  /\ RequestOut
  /\ net.url = URL_quoteAll
  /\ call.slippageTolerance = JNum(1, 100)
  /\ NumEq(Get(net.body, "slippageTolerance"), JNum(1, 10000))

(***************************************************************************)
(* C8: every quoteBest, quoteAll and swap request body carries the         *)
(* referrer 'rubic.exchange', whatever the caller passed.                  *)
(***************************************************************************)
C8_Referrer ==
  RequestOut =>
     /\ net.url \in {URL_quoteBest, URL_quoteAll, URL_swap}
     /\ Get(net.body, "referrer") = JStr(<<"r","u","b","i","c",".","e","x","c","h","a","n","g","e">>)

\* a quoteBest request is on the wire with the referrer
C8_Witness ==
  /\ RequestOut
  /\ net.url = URL_quoteBest
  /\ Get(net.body, "referrer") = JStr(RUBIC_REFERRER)

(***************************************************************************)
(* C9: getRubicBridgeQuotes yields a sequence of quotes: a 2xx body that   *)
(* is a bare quote object with an `id` gives the one-element sequence      *)
(* holding that object, an array of quotes gives that array, and [] gives  *)
(* [] with no error.                                                       *)
(***************************************************************************)
QuoteShaped(v) == v \in {RouteMin, RouteFull}

C9_Post ==
  LET rawData == net.raw
  IN (net.dir = "response" /\ ResponseOk(net) /\ rawData # NotJson) =>
        /\ (rawData.t = "object" /\ Truthy(Get(rawData, "id")) /\ QuoteShaped(rawData)) =>
              (result'.via = "quotes" /\ result'.data = JArr(<<rawData>>))
        /\ (rawData.t = "array" /\ \A i \in 1..Len(rawData.a) : QuoteShaped(rawData.a[i])) =>
              (result'.via = "quotes" /\ result'.data = rawData)

C9_AlwaysSequence == [][getRubicBridgeQuotes_afterFetch => C9_Post]_vars

(***************************************************************************)
(* C10: getRubicBridgeQuotes reports "no route" only for a 2xx answer with *)
(* an empty set of routes, and reports a failure for every answer that is  *)
(* not a route set: a non-2xx answer, or a 2xx body that is neither an     *)
(* array nor an object with an `id`.                                       *)
(***************************************************************************)
SaysNoRoute(r) ==
  r.via = "quotes" /\ \E i \in 1..Len(r.text) : r.text[i] \in {T_NoRoutes, T_NoRoutesOrInvalid}

C10_Post ==
  /\ SaysNoRoute(result') =>
       (net.dir = "response" /\ ResponseOk(net) /\ net.raw = JArr(<<>>))
  /\ (net.dir = "response" /\ ~ResponseOk(net)) => result'.via = "catch"
  /\ (net.dir = "response" /\ ResponseOk(net)
        /\ net.raw.t # "array" /\ ~(net.raw.t = "object" /\ Truthy(Get(net.raw, "id")))) =>
       result'.via = "catch"

C10_NoRouteVsFailure == [][getRubicBridgeQuotes_afterFetch => C10_Post]_vars

(***************************************************************************)
(* C11: in each of the five tools (supported chains, best quote, all       *)
(* quotes, status, swap preparation) a non-2xx answer makes the tool fail: *)
(* it returns the text of its catch block and no data, and the error       *)
(* message carries the status code and the raw body of the answer.         *)
(***************************************************************************)
Tools ==
  {"getRubicSupportedChains", "getRubicBridgeQuote", "getRubicBridgeQuotes",
   "getRubicBridgeStatus", "prepareRubicBridgeSwap"}

\* the running invocation returns in this step, its answer having arrived
Returns == pc = "awaiting" /\ net.dir \in {"response", "failure"} /\ pc' = "done"

\* the values interpolated into the error message of a failed result
ErrorArgs(r) == {r.text[1].args[1].args[i] : i \in 1..Len(r.text[1].args[1].args)}

C11_Post ==
  (net.dir = "response" /\ ~ResponseOk(net)) =>
     /\ call.op \in Tools
     /\ result'.via = "catch"
     /\ result'.data = JUndef
     /\ Len(result'.text) = 1
     /\ JNum(net.status, 1) \in ErrorArgs(result')
     /\ net.raw \in ErrorArgs(result')

C11_NonOkFails == [][Returns => C11_Post]_vars

\* the status query has failed on a 429 answer, the code and the body in its message
C11_Witness ==
  /\ pc = "done"
  /\ call.op = "getRubicBridgeStatus"
  /\ result.via = "catch"
  /\ result.text[1].tpl = P_status
  /\ JNum(429, 1) \in ErrorArgs(result)
  /\ MkObj(<<<<"message", JStr(S_rateLimited)>>>>) \in ErrorArgs(result)

(***************************************************************************)
(* C12: an invocation of a tool sends at most one HTTP request: once the   *)
(* answer to its request is there (a 2xx or non-2xx response, or a network *)
(* failure) its next step is its return, with no further request sent, and *)
(* a failed request is returned as a failure.                              *)
(***************************************************************************)
C12_Step ==
  /\ nRequests' <= 1
  /\ (pc = "awaiting" /\ net.dir \in {"response", "failure"}) =>
       /\ pc' = "done"
       /\ nRequests' = nRequests
       /\ net' = NoMessage
       /\ (net.dir = "failure" \/ ~ResponseOk(net)) => result'.via = "catch"

C12_AtMostOneRequest == [][C12_Step]_vars

\* the swap tool has returned the failure of its only request, lost on the network
C12_Witness ==
  /\ pc = "done"
  /\ call.op = "prepareRubicBridgeSwap"
  /\ nRequests = 1
  /\ result = Failed(P_swap, Msg("fetch failed", <<>>))

(***************************************************************************)
(* C13: in the default handler of prepareRubicBridgeSwap, a response whose *)
(* `transaction` lacks `to` or `data`, or that has no `transaction` at     *)
(* all, makes the tool fail with an error that names the missing field     *)
(* and echoes the transaction of the response.                             *)
(***************************************************************************)
\* a 2xx answer of /routes/swap whose body passes the error and the emptiness checks
ValidSwapBody ==
  /\ net.dir = "response"
  /\ ResponseOk(net)
  /\ net.raw # NotJson
  /\ ~Nullish(net.raw)
  /\ ~Truthy(Get(net.raw, "error"))
  /\ ~Truthy(Get(net.raw, "statusCode"))
  /\ ~Truthy(Get(net.raw, "message"))
  /\ ObjectKeysLength(net.raw) # 0

\* the answer is handled by the default handler
DefaultHandled ==
  /\ ValidSwapBody
  /\ ~isSpecialProvider(call.quoteId)
  /\ ~isSolanaSource(call.srcTokenBlockchain)

M_missingTo == "Missing 'to' address in transaction data: ${JSON.stringify(swapData.transaction)}"

M_missingData == "Missing 'data' in transaction data: ${JSON.stringify(swapData.transaction)}"

C13_Post ==
  LET transaction == Get(net.raw, "transaction")
      to == GetOpt(transaction, "to")
      data == GetOpt(transaction, "data")
  IN (DefaultHandled /\ (~Truthy(to) \/ ~Truthy(data))) =>
        /\ result'.via = "catch"
        /\ result'.text[1].args[1].tpl = (IF ~Truthy(to) THEN M_missingTo ELSE M_missingData)
        /\ result'.text[1].args[1].args = <<transaction>>

C13_DefaultHandlerErrors == [][prepareRubicBridgeSwap_afterFetch => C13_Post]_vars

(***************************************************************************)
(* C14: when the source blockchain is SOLANA or SOL (in any case) and the  *)
(* response is a valid non-error body, prepareRubicBridgeSwap returns the  *)
(* `transaction.data` of the response verbatim, with no `to` required, or  *)
(* fails when that payload is missing, whichever provider the quote is of. *)
(***************************************************************************)
C14_Post ==
  LET payload == GetOpt(Get(net.raw, "transaction"), "data")
  IN (ValidSwapBody /\ isSolanaSource(call.srcTokenBlockchain)) =>
        /\ (Truthy(payload) /\ payload.t = "string") =>
              /\ result'.via = "solana"
              /\ Get(result'.data, "transactionData") = payload
        /\ ~Truthy(payload) => result'.via = "catch"

C14_SolanaPayload == [][prepareRubicBridgeSwap_afterFetch => C14_Post]_vars

(***************************************************************************)
(* C15: for a quote id that contains STARGATE (in any case),               *)
(* prepareRubicBridgeSwap returns the informational "manual transaction    *)
(* construction" result at once: no request is sent to /routes/swap, no    *)
(* response is handled, and the result holds no transaction.               *)
(***************************************************************************)
C15_ManualProvider ==
  (call.op = "prepareRubicBridgeSwap" /\ HasArgs /\ includes(toUpperCase(call.quoteId), S_STARGATE)) =>
     /\ pc = "done"
     /\ nRequests = 0
     /\ net = NoMessage
     /\ result.via = "stargate"
     /\ Msg("This provider currently requires manual transaction construction.", <<>>)
          \in {result.text[i] : i \in 1..Len(result.text)}
     /\ Get(result.data, "transaction") = JUndef
     /\ Get(result.data, "transactionData") = JUndef
     /\ Get(result.data, "quoteId") = JStr(call.quoteId)

\* the tool has returned for the mixed-case quote id Stargate-v2, nothing sent
C15_Witness ==
  /\ pc = "done"
  /\ call.op = "prepareRubicBridgeSwap"
  /\ HasArgs
  /\ call.quoteId = Q_stargate
  /\ result.via = "stargate"
  /\ nRequests = 0

(***************************************************************************)
(* C16: for each of the seven status tokens (pending, indexing, revert,    *)
(* failed, claim, success, error) getRubicBridgeStatus reports the token   *)
(* the aggregator gave as the state, and closes its text with the          *)
(* explanation of that state, a fixed non-empty sentence that differs      *)
(* from the explanation of each other state.                               *)
(***************************************************************************)
\* the explanation each state is to get
ExplanationOf(s) ==
  CASE s = S_pending -> E_pending
    [] s = S_indexing -> E_indexing
    [] s = S_revert -> E_revert
    [] s = S_failed -> E_failed
    [] s = S_claim -> E_claim
    [] s = S_success -> E_success
    [] s = S_error -> E_error

\* the 2xx answer to a status query is an object with a string as status
StatusAnswered ==
  /\ net.dir = "response"
  /\ ResponseOk(net)
  /\ net.raw # NotJson
  /\ net.raw.t = "object"
  /\ Get(net.raw, "status").t = "string"

\* the state a result of getRubicBridgeStatus reports
ReportedState(r) == Get(r.data, "status")

C16_Post ==
  (StatusAnswered /\ Get(net.raw, "status").s \in KnownStatuses) =>
     LET token == Get(net.raw, "status").s
     IN /\ result'.via = "status"
        /\ ReportedState(result') = JStr(token)
        /\ Msg("Status: ${data.status.toUpperCase()}", <<JStr(toUpperCase(token))>>)
             \in {result'.text[i] : i \in 1..Len(result'.text)}
        /\ result'.text[Len(result'.text)] = Msg(ExplanationOf(token), <<>>)
        /\ ExplanationOf(token) # ""
        /\ \A s \in KnownStatuses \ {token} : ExplanationOf(s) # ExplanationOf(token)

C16_StatusMapping == [][getRubicBridgeStatus_afterFetch => C16_Post]_vars

\* a status query has returned the state claim with the explanation of claim
C16_Witness ==
  /\ pc = "done"
  /\ call.op = "getRubicBridgeStatus"
  /\ result.via = "status"
  /\ ReportedState(result) = JStr(S_claim)
  /\ result.text[Len(result.text)] = Msg(E_claim, <<>>)

(***************************************************************************)
(* C17: for a 2xx answer whose status token is none of the seven known     *)
(* ones, getRubicBridgeStatus returns a normal result that closes with the *)
(* catch-all explanation; it does not fail on account of the token.        *)
(***************************************************************************)
\* the 2xx answer to a status query is an object that holds a status token
TokenAnswered ==
  /\ net.dir = "response"
  /\ ResponseOk(net)
  /\ net.raw # NotJson
  /\ net.raw.t = "object"
  /\ "status" \in DOMAIN net.raw.o

C17_Post ==
  (TokenAnswered /\ Get(net.raw, "status") \notin {JStr(s) : s \in KnownStatuses}) =>
     /\ result'.via = "status"
     /\ ReportedState(result') = Get(net.raw, "status")
     /\ result'.text[Len(result'.text)] = Msg(E_unknown, <<>>)

C17_UnknownToken == [][getRubicBridgeStatus_afterFetch => C17_Post]_vars

(***************************************************************************)
(* C18: getRubicBridgeStatus keeps no state between calls: its result      *)
(* is determined by the answer received for this call.  A call that        *)
(* receives the answer an earlier call received, for the same hash or for  *)
(* another one, returns the result the earlier call returned.              *)
(***************************************************************************)
C18_Post ==
  \A h \in Hashes :
    (polls[h].seen /\ polls[h].answer = net) => result' = polls[h].result

TerminalStatuses == {S_success, S_claim, S_revert, S_failed, S_error}

\* state b may be reported after state a
LifecycleOK(a, b) ==
  /\ a \in {JStr(s) : s \in KnownStatuses}
  /\ b \in {JStr(s) : s \in KnownStatuses}
  /\ a \in {JStr(s) : s \in TerminalStatuses} => b = a
  /\ a = JStr(S_indexing) => b # JStr(S_pending)

\* message m is a 2xx answer with a string for its status token
Answered(m) ==
  /\ m.dir = "response"
  /\ ResponseOk(m)
  /\ m.raw # NotJson
  /\ ~Nullish(m.raw)
  /\ Get(m.raw, "status").t = "string"

C19_OriginalPost ==
  LET last == polls[call.srcTxHash]
  IN /\ result'.via = "status" => reported(result') \in {JStr(s) : s \in KnownStatuses}
     /\ (last.seen /\ last.result.via = "status" /\ result'.via = "status")
          => LifecycleOK(reported(last.result), reported(result'))

C19_Post ==
  LET last == polls[call.srcTxHash]
  IN /\ Answered(net) =>
          /\ result'.via = "status"
          /\ reported(result') = Get(net.raw, "status")
     /\ (last.seen /\ Answered(last.answer) /\ Answered(net)
           /\ LifecycleOK(Get(last.answer.raw, "status"), Get(net.raw, "status")))
          => LifecycleOK(reported(last.result), reported(result'))

AloneResult(c, m) ==
  LET h == CASE c.op = "getRubicSupportedChains" -> [r |-> handleChainsResponse(m), p |-> P_chains]
             [] c.op = "getRubicBridgeQuote" -> [r |-> handleQuoteResponse(m), p |-> P_quote]
             [] c.op = "getRubicBridgeQuotes" -> [r |-> handleQuotesResponse(m), p |-> P_quotes]
             [] c.op = "getRubicBridgeStatus" -> [r |-> handleStatusResponse(m), p |-> P_status]
             [] c.op = "prepareRubicBridgeSwap" ->
                  [r |-> handleSwapResponse(c.quoteId, c.srcTokenBlockchain, m), p |-> P_swap]
  IN IF h.r.threw THEN Failed(h.p, h.r.m) ELSE h.r.v

\* the invocation that runs keeps the parameters it reads after its fetch
KeepsParameters ==
  /\ call'.op = call.op
  /\ call.op = "prepareRubicBridgeSwap" =>
       call'.quoteId = call.quoteId /\ call'.srcTokenBlockchain = call.srcTokenBlockchain
  /\ call.op = "getRubicBridgeStatus" => call'.srcTxHash = call.srcTxHash

C20_Step ==
  /\ env' = env
  /\ \/ Switch
     \/ /\ other' = other
        /\ pc = "awaiting" => KeepsParameters
        /\ Returns => result' = AloneResult(call, net)

OutcomeOf(handled) ==
  IF handled.threw
  THEN [path |-> "catch", kind |-> handled.m.tpl]
  ELSE [path |-> handled.v.via,
        to |-> GetOpt(Get(handled.v.data, "transaction"), "to"),
        data |-> Or(GetOpt(Get(handled.v.data, "transaction"), "data"),
                    Get(handled.v.data, "transactionData")),
        value |-> Or(GetOpt(Get(handled.v.data, "transaction"), "value"), JStr(<<"0">>))]

\* the quote ids for which a request is sent
SentQuoteIds == {q \in QuoteIds : ~isManualProvider(q)}

C21_Post ==
  \A q \in SentQuoteIds :
    OutcomeOf(handleSwapResponse(q, call.srcTokenBlockchain, net))
      = OutcomeOf(handleSwapResponse(call.quoteId, call.srcTokenBlockchain, net))

C21_QuoteIdOpaque == [][prepareRubicBridgeSwap_afterFetch => C21_Post]_vars

(***************************************************************************)
(* C22: the handler of prepareRubicBridgeSwap is selected by a substring   *)
(* match, in any letter case, of the quote id (the identifier the code     *)
(* matches) against SQUIDROUTER, LIFI, SYMBIOSIS, ACROSS, BRIDGED: a valid *)
(* answer is handled by the special-provider handler exactly when the id   *)
(* contains one of the five names, and otherwise by the Solana handler for *)
(* a Solana source and by the default handler for any other source.        *)
(***************************************************************************)
\* c and d are one character, or the two cases of one letter
SameLetter(c, d) ==
  c = d \/ \E i \in 1..26 : {c, d} = {LowerAlpha[i], UpperAlpha[i]}

\* s contains the word w, each letter in either case
ContainsAnyCase(s, w) ==
  \E i \in 1..(Len(s) - Len(w) + 1) : \A j \in 1..Len(w) : SameLetter(s[i + j - 1], w[j])

QuirkyNames == {S_SQUIDROUTER, S_LIFI, S_SYMBIOSIS, S_ACROSS, S_BRIDGED}

IsQuirky(id) == \E w \in QuirkyNames : ContainsAnyCase(id, w)

\* the error of a failed result
ErrorOf(r) == r.text[1].args[1]

\* result r was produced by the special-provider handler
RanSpecial(r) ==
  \/ r.via = "special"
  \/ /\ r.via = "catch"
     /\ \/ ErrorOf(r).tpl \in {"No transaction data found in response for ${quoteId}",
                               "Could not find transaction target address in ${quoteId} response",
                               "Could not find transaction data in ${quoteId} response"}
        \/ ErrorOf(r).tpl = "TypeError" /\ ErrorOf(r).at = "txData.data.substring"

\* result r was produced by the Solana handler
RanSolana(r) ==
  \/ r.via = "solana"
  \/ /\ r.via = "catch"
     /\ \/ ErrorOf(r).tpl = "Missing transaction data in Solana response: ${JSON.stringify(swapData)}"
        \/ /\ ErrorOf(r).tpl = "TypeError"
           /\ ErrorOf(r).at \in {"swapData.transaction.data", "swapData.transaction.data.substring"}

\* result r was produced by the default handler
RanDefault(r) ==
  \/ r.via = "default"
  \/ /\ r.via = "catch"
     /\ \/ ErrorOf(r).tpl \in {M_missingTo, M_missingData}
        \/ /\ ErrorOf(r).tpl = "TypeError"
           /\ ErrorOf(r).at \in {"swapData.transaction.to", "swapData.transaction.data.substring"}

C22_Post ==
  ValidSwapBody =>
    /\ RanSpecial(result') <=> IsQuirky(call.quoteId)
    /\ ~IsQuirky(call.quoteId) =>
         IF toUpperCase(call.srcTokenBlockchain) \in {S_SOLANA, S_SOL}
         THEN RanSolana(result')
         ELSE RanDefault(result')

C22_HandlerSelection == [][prepareRubicBridgeSwap_afterFetch => C22_Post]_vars

\* the special-provider handler has returned a transaction for the quote
\* 'bridged', and would not have for 'BRIDGE'
C22_Witness ==
  /\ pc = "done"
  /\ call.op = "prepareRubicBridgeSwap"
  /\ call.quoteId = <<"b","r","i","d","g","e","d">>
  /\ result.via = "special"
  /\ ~IsQuirky(<<"B","R","I","D","G","E">>)

(***************************************************************************)
(* C23: in the special-provider handler each of to, data and value comes,  *)
(* independently of the others, from the first of the containers           *)
(* transaction, tx, transactionRequest that holds a non-empty value for    *)
(* it: a non-empty value of a container of higher priority is not replaced *)
(* by a value, or by an empty default, of a container of lower priority.   *)
(***************************************************************************)
\* the first non-empty value of field f over the three containers
FirstNonEmpty(data, f) ==
  Or(GetOpt(Get(data, "transaction"), f),
     Or(GetOpt(Get(data, "tx"), f), GetOpt(Get(data, "transactionRequest"), f)))

\* the answer is handled by the special-provider handler
SpecialHandled == ValidSwapBody /\ isSpecialProvider(call.quoteId)

C23_Post ==
  SpecialHandled =>
    /\ result'.via = "special" =>
         /\ Truthy(FirstNonEmpty(net.raw, "data")) =>
              Get(Get(result'.data, "transaction"), "data") = FirstNonEmpty(net.raw, "data")
         /\ Truthy(FirstNonEmpty(net.raw, "value")) =>
              Get(Get(result'.data, "transaction"), "value") = FirstNonEmpty(net.raw, "value")
    /\ (result'.via = "catch" /\ Truthy(FirstNonEmpty(net.raw, "data"))) =>
         ErrorOf(result').tpl # "Could not find transaction data in ${quoteId} response"

C23_FieldsIndependent == [][prepareRubicBridgeSwap_afterFetch => C23_Post]_vars

(***************************************************************************)
(* C24: in the special-provider handler, when none of the candidate        *)
(* locations yields a `to` address, also when the answer has none of the   *)
(* containers transaction, tx, transactionRequest, the whole answer is     *)
(* scanned before the tool may fail: an answer whose only address lies     *)
(* under a key to, targetAddress or contractAddress elsewhere is resolved  *)
(* by the scan, so the tool does not fail for want of a target address.    *)
(***************************************************************************)
\* none of the candidate locations of data holds a `to` address
NoCandidateTo(data) ==
  /\ \A c \in {"transaction", "tx", "transactionRequest"} :
       /\ ~Truthy(GetOpt(Get(data, c), "to"))
       /\ ~Truthy(GetOpt(Get(data, c), "targetAddress"))
  /\ ~Truthy(GetOpt(GetOpt(Get(data, "transaction"), "routeTransaction"), "targetAddress"))

\* v is a string of 0x and forty more characters
AddressLike(v) == v.t = "string" /\ Len(v.s) = 42 /\ SubSeq(v.s, 1, 2) = S_0x

\* the addresses of data under a key to, targetAddress or contractAddress
ScanTargets(data) == {v \in ValuesUnder(data, AddressKeys) : AddressLike(v)}

\* the failures of a special-provider swap for want of a target address
NoTargetFailures ==
  {"No transaction data found in response for ${quoteId}",
   "Could not find transaction target address in ${quoteId} response"}

C24_Post ==
  (SpecialHandled /\ NoCandidateTo(net.raw) /\ ScanTargets(net.raw) # {}) =>
     /\ result'.via = "catch" => ErrorOf(result').tpl \notin NoTargetFailures
     /\ result'.via = "special" => Get(Get(result'.data, "transaction"), "to") \in ScanTargets(net.raw)

C24_ScanBeforeFailure == [][prepareRubicBridgeSwap_afterFetch => C24_Post]_vars

(***************************************************************************)
(* C25: findToAddress ends on every object, and what it returns is either  *)
(* nothing or a string that is a 20-byte hex address (0x and forty hex     *)
(* digits), stored under a key named exactly to, targetAddress or          *)
(* contractAddress, in an object at most three levels below the root.      *)
(***************************************************************************)
\* s is 0x followed by forty hexadecimal digits
IsHexAddress(s) ==
  /\ Len(s) = 42
  /\ SubSeq(s, 1, 2) = S_0x
  /\ \A i \in 3..42 : s[i] \in HexDigits

RECURSIVE ValuesWithin(_, _, _)
\* the values stored under one of the keys in v or in an object at most d
\* levels below v
ValuesWithin(v, keys, d) ==
  IF v.t = "object"
  THEN UNION {(IF k \in keys THEN {v.o[k]} ELSE {})
                \cup (IF d > 0 THEN ValuesWithin(v.o[k], keys, d - 1) ELSE {}) : k \in DOMAIN v.o}
  ELSE IF v.t = "array"
  THEN UNION {(IF d > 0 THEN ValuesWithin(v.a[i], keys, d - 1) ELSE {}) : i \in 1..Len(v.a)}
  ELSE {}

\* the scan has returned
Scanned == pc = "done" /\ call.op = "findToAddress"

C25_ScanResult ==
  (Scanned /\ result.found # <<>>) =>
     /\ IsHexAddress(result.found)
     /\ JStr(result.found) \in ValuesWithin(call.obj, AddressKeys, 3)

(***************************************************************************)
(* C26: a 2xx answer to the swap request whose body reports an error, by a *)
(* field `error`, by `statusCode` with `message`, or by a string           *)
(* `message`, ends in the failure 'API returned an error'; no transaction  *)
(* is taken from it, not even a complete one, whatever the quote id and    *)
(* the source blockchain.                                                  *)
(***************************************************************************)
\* the 2xx body of the answer is an object in one of the three error shapes
ErrorShaped ==
  /\ net.dir = "response"
  /\ ResponseOk(net)
  /\ net.raw # NotJson
  /\ net.raw.t = "object"
  /\ \/ Truthy(Get(net.raw, "error"))
     \/ Truthy(Get(net.raw, "statusCode")) /\ Truthy(Get(net.raw, "message"))
     \/ Get(net.raw, "message").t = "string" /\ Get(net.raw, "message").s # <<>>

M_apiError == "API returned an error: ${errorMessage}"

C26_Post ==
  ErrorShaped =>
    /\ result'.via = "catch"
    /\ result'.data = JUndef
    /\ ErrorOf(result').tpl = M_apiError

C26_BodyErrorFirst == [][prepareRubicBridgeSwap_afterFetch => C26_Post]_vars

\* a special-provider swap on a Solana source has failed on a body that
\* reports an error
C26_Witness ==
  /\ pc = "done"
  /\ call.op = "prepareRubicBridgeSwap"
  /\ call.quoteId = Q_lifi
  /\ call.srcTokenBlockchain = C_Sol
  /\ result.via = "catch"
  /\ ErrorOf(result).tpl = M_apiError
  /\ ErrorOf(result).args = <<JStr(S_badQuote)>>

(***************************************************************************)
(* C27: a 2xx answer to the swap request whose body is present but empty,  *)
(* the object {} or null, ends in the failure 'No data returned for        *)
(* <quote id>. This route might not be available.', naming the quote id,   *)
(* and in no other failure.                                                *)
(***************************************************************************)
M_noData == "No data returned for ${quoteId}. This route might not be available."

C27_Post ==
  (net.dir = "response" /\ ResponseOk(net) /\ net.raw \in {EmptyObj, JNull}) =>
     /\ result'.via = "catch"
     /\ ErrorOf(result').tpl = M_noData
     /\ ErrorOf(result').args = <<JStr(call.quoteId)>>

C27_EmptyBodyNoRoute == [][prepareRubicBridgeSwap_afterFetch => C27_Post]_vars

(***************************************************************************)
(* C28: a failure of prepareRubicBridgeSwap on a 2xx body that reports an  *)
(* error carries what the body says: its statusCode when it has one, and   *)
(* its message or error text when it has one.                              *)
(***************************************************************************)
C28_Post ==
  ErrorShaped =>
    /\ result'.via = "catch"
    /\ Truthy(Get(net.raw, "statusCode")) => Get(net.raw, "statusCode") \in ErrorArgs(result')
    /\ (Truthy(Get(net.raw, "message")) \/ Truthy(Get(net.raw, "error"))) =>
         ErrorArgs(result') \cap {Get(net.raw, "message"), Get(net.raw, "error")} # {}

C28_FailureCarriesUpstream == [][prepareRubicBridgeSwap_afterFetch => C28_Post]_vars

(***************************************************************************)
(* C29: no request sent to the aggregator carries a known placeholder in a *)
(* wallet-address field: whatever the caller passes, and with a configured *)
(* public address that is no placeholder, none of walletAddress,           *)
(* fromAddress and receiver of a quoteBest, quoteAll or swap body is       *)
(* 0xYourWalletAddressHere, 0xYourAddressHere or 0x00..01.                 *)
(***************************************************************************)
WalletFields == {"walletAddress", "fromAddress", "receiver"}

C29_NoPlaceholderSent ==
  (pc = "awaiting" /\ net.dir = "request" /\ net.method = "POST"
     /\ env.ETH_PUBLIC_ADDRESS \notin {JStr(p) : p \in Placeholders}) =>
     \A f \in WalletFields : Get(net.body, f) \notin {JStr(p) : p \in Placeholders}

(***************************************************************************)
(* C30: withRetry(fn, maxRetries) calls fn at most maxRetries + 1 times    *)
(* and ends when every call of fn ends.  It returns the first result fn    *)
(* resolves with; it calls fn again only after an error whose message      *)
(* contains '429' and only while fewer than maxRetries retries have been   *)
(* made; after any other error it throws at once, that error, with no      *)
(* further call of fn.                                                     *)
(***************************************************************************)
C30_Bound == nRequests <= call.maxRetries + 1

C30_Step ==
  /\ withRetry_try => (pc = "idle" /\ nRequests = 0) \/ pc = "waiting"
  /\ withRetry_return =>
       /\ result'.value = net.value
       /\ nRequests' = nRequests
  /\ withRetry_catch =>
       /\ nRequests' = nRequests
       /\ pc' = "waiting" =>
            /\ net.error.message.t = "string"
            /\ includes(net.error.message.s, S_429)
            /\ call.retries < call.maxRetries
       /\ (net.error.message.t = "string" /\ ~includes(net.error.message.s, S_429)) =>
            /\ pc' = "done"
            /\ result' = [via |-> "throw", error |-> net.error]
       /\ net.error.message.t # "string" => pc' = "done" /\ result'.via = "throw"
  /\ pc = "done" => UNCHANGED vars

C30_WithRetry == [](C30_Bound) /\ [][C30_Step]_vars /\ <>(pc = "done")

\* with maxRetries 5, fn failed five times on a rate limit and its sixth call
\* has given the result
C30_Witness ==
  /\ pc = "done"
  /\ call.op = "withRetry"
  /\ call.maxRetries = 5
  /\ call.retries = 5
  /\ nRequests = 6
  /\ result.via = "return"

====
